---------------------------- MODULE Spec2Model ----------------------------
(***************************************************************************)
(* Model of etcd2s3's retention evaluation, cross-store reconciliation and *)
(* compression-aware name resolution.                                       *)
(*                                                                          *)
(* Time is counted in whole hours: every ModTime and every reading of the   *)
(* clock is an integral number of hours, so an age is a whole number of     *)
(* hours.  A time.Duration keeps its 64-bit nanosecond width: see           *)
(* Int64Hours.                                                              *)
(***************************************************************************)
EXTENDS Integers, Sequences, FiniteSets, TLC

VARIABLES
    policy,       \* Manager.policy (appconfig.RetentionPolicy)
    now,          \* the wall clock read by time.Now(), in hours
    \* -- one call of GetRetentionStatus
    evalInput,    \* the slice handed to GetRetentionStatus, as the caller built it
    snapshots,    \* that slice as the call leaves it (sort.Slice sorts in place)
    toKeep,       \* the map GetRetentionStatus returned: the set of names mapped to true
    evalPc,       \* "ready" before the call, "done" after it
    \* -- one call of ApplyUnified
    localFiles,   \* the snapshot directory: name -> ModTime, or NoFile
    s3Objects,    \* the bucket: name -> LastModified, or NoFile
    dryRun,       \* ApplyUnified's dryRun argument
    s3Client,     \* ApplyUnified's s3Client argument: "nil" or "client"
    pc,           \* the statement of ApplyUnified that runs next
    localSnapshots,     \* the listing GetLocalSnapshots returned
    s3Snapshots,        \* the listing GetS3Snapshots returned
    unifiedSnapshots,   \* the slice createUnifiedSnapshotList returned
    retentionDecisions, \* the map GetUnifiedRetentionStatus returned, as the set of kept names
    localDeleted,       \* the names applyRetentionToLocal counted as deleted, in order
    keysToDelete,       \* the keys applyRetentionToS3 collected
    err,                \* what ApplyUnified returned: "none" or the failed listing
    \* -- one call of ResolveCompressedKey or ResolveCompressedFile
    resolver,     \* "s3" for Client.ResolveCompressedKey, "local" for ResolveCompressedFile
    filename,     \* the key or filename asked for, a sequence of characters
    stat,         \* what the store answers for each name that may be probed
    resPc,        \* "call", then "loop" while the candidates are tried, then "returned"
    candidates,   \* the slice ResolveCompressedFilename returned
    probed,       \* the candidates whose existence was checked, in order
    resolved,     \* the values returned: name, found, err
    Compression,  \* SnapshotCmd.Compression, the algorithm snapshots are written with
    \* -- one run of a command
    Local,        \* the command's --local flag
    Remote,       \* the command's --remote flag
    Unified,      \* the command's --unified flag
    UploadToS3,   \* SnapshotCmd.UploadToS3
    RemoveLocal,  \* SnapshotCmd.RemoveLocal || Config.Policy.RemoveLocal
    ApplyRetention, \* SnapshotCmd.ApplyRetention
    listFails,    \* the stores whose listing fails: "local" (os.ReadDir), "s3" (Client.List)
    cmdPc,        \* the statement of the command that runs next
    cmdErr,       \* what the command returned: "none" or the error
    toUpload,     \* the slice uploadMissingSnapshots collected
    log,          \* the messages logged so far
    listed,       \* the rows the list command printed
    run,          \* the number of the command's run
    prevRun,      \* of the run before: whether it returned nil with every selected snapshot
                  \* gone, and how many it deleted
    \* -- one run of the restore command
    Source,       \* RestoreCmd.Source, a sequence of characters
    localStat,    \* what os.Stat answers for each local path the command may touch
    s3Stat,       \* what the object store's Stat answers for each key that may be probed
    restorePc,    \* the statement of RestoreCmd.Run that runs next
    snapshotPath, \* the path downloadSnapshot or ResolveCompressedFile returned
    restoreErr,   \* what RestoreCmd.Run returned so far: "none" or the error
    s3Ops,        \* the requests sent to the object store so far
    \* -- one call of etcd.NewClient
    cfg,          \* the appconfig.EtcdConfig it is given; a file is named by what reading it gives
    clientConfig, \* the clientv3.Config being built: Username and TLS
    tlsConfig,    \* the tls.Config being built, nil before it is made
    newClientPc,  \* the statement of NewClient that runs next
    etcdClient,   \* the *Client returned: "nil" or "client"
    etcdErr,      \* the error returned: "none" or the message
    \* -- one s3.Client and its bucket
    s3Prefix,     \* Client.prefix, a sequence of characters
    bucketKeys,   \* the full keys of the objects in the bucket
    uploaded,     \* the keys Upload was called with
    s3Listed,     \* the slice Client.List returned, each Object with the full key it came from
    deleted,      \* the Delete requests: the full key sent for, and that of the listed object
    \* -- one CLIContext and the goroutines calling GetS3Client on it
    Bucket,       \* ctx.Config.S3.Bucket
    s3Mutex,      \* ctx.s3Mutex: "free" or the goroutine holding it
    ctxClient,    \* ctx.s3Client: 0 for nil, else the number of the client cached
    created,      \* how many clients the factory has created
    attempts,     \* how many times CreateClient was called
    getPc,        \* for each goroutine, the statement of GetS3Client that runs next
    calls,        \* for each goroutine, how many calls it has started
    returned,     \* what the calls returned so far: who, which call, client and error
    \* -- the snapshot command from the etcd snapshot to the upload
    sCompression,      \* SnapshotCmd.Compression
    dirFiles,          \* for each path of the snapshot directory, what is there
    runPc,             \* the statement of SnapshotCmd.Run that runs next
    finalSnapshotPath, \* the local variable of that name
    runErr             \* what Run returned: "none" or the error

evalVars == <<evalInput, snapshots, toKeep, evalPc>>
unifiedVars == <<localFiles, s3Objects, dryRun, s3Client, pc, localSnapshots, s3Snapshots,
                 unifiedSnapshots, retentionDecisions, localDeleted, keysToDelete, err>>
resolveVars == <<resolver, filename, stat, resPc, candidates, probed, resolved, Compression>>
flagVars == <<Local, Remote, Unified, UploadToS3, RemoveLocal, ApplyRetention, listFails>>
cmdVars == <<flagVars, cmdPc, cmdErr, toUpload, log, listed, run, prevRun>>
restoreVars == <<Source, localStat, s3Stat, restorePc, snapshotPath, restoreErr, s3Ops>>
\* the variables of the commands and calls other than retention, name resolution,
\* snapshot, list and cleanup
etcdVars == <<cfg, clientConfig, tlsConfig, newClientPc, etcdClient, etcdErr>>
s3KeyVars == <<s3Prefix, bucketKeys, uploaded, s3Listed, deleted>>
getVars == <<Bucket, s3Mutex, ctxClient, created, attempts, getPc, calls, returned>>
compressVars == <<sCompression, dirFiles, runPc, finalSnapshotPath, runErr>>
otherVars == <<restoreVars, etcdVars, s3KeyVars, getVars, compressVars>>
\* otherVars without the variables of the restore command, without those of
\* NewClient, and without those of the s3.Client
exceptRestore == <<etcdVars, s3KeyVars, getVars, compressVars>>
exceptEtcd == <<restoreVars, s3KeyVars, getVars, compressVars>>
exceptS3Keys == <<restoreVars, etcdVars, getVars, compressVars>>
exceptGet == <<restoreVars, etcdVars, s3KeyVars, compressVars>>
exceptCompress == <<restoreVars, etcdVars, s3KeyVars, getVars>>
vars == <<policy, now, otherVars, evalVars, unifiedVars, resolveVars, cmdVars>>

---------------------------------------------------------------------------
(* Bounds of the model *)

\* the clock's first reading, in hours
Now0 == 10000
\* longest slice handed to GetRetentionStatus
MaxLen == 2
\* largest keep-last count
MaxKeep == 1
\* the keep-within counts the windows are given together
WindowCounts == {0, 1}
\* the readings of the clock
Clocks == {Now0, Now0 + 1}

Min(a, b) == IF a < b THEN a ELSE b

Range(s) == {s[i] : i \in 1..Len(s)}

---------------------------------------------------------------------------
(* time.Duration: a signed 64-bit count of nanoseconds *)

\* 2^64 ns = Int64WrapHours hours + Int64WrapTicks ticks, a tick being 2^13 ns
\* and an hour TicksPerHour ticks (3.6e12 = 2^13 * 439453125)
TicksPerHour == 439453125
Int64WrapHours == 5124095
Int64WrapTicks == 253138373
\* 2^63 ns = Int64HalfHours hours + Int64HalfTicks ticks
Int64HalfHours == 2562047
Int64HalfTicks == 346295749

\* ceil(t / TicksPerHour) for t >= 0
CeilHours(t) == (t + TicksPerHour - 1) \div TicksPerHour

\* whether j * 2^64 <= n hours + 2^63 (in ns)
WrapsAtLeast(n, j) ==
    LET d == n + Int64HalfHours - j * Int64WrapHours
        e == j * Int64WrapTicks - Int64HalfTicks
    IN IF e <= 0 THEN d >= 0 ELSE d >= CeilHours(e)

\* how many times 2^64 is subtracted when n hours, in ns, is reduced to int64
Wraps(n) == CHOOSE j \in 0..6 : WrapsAtLeast(n, j) /\ ~WrapsAtLeast(n, j + 1)

\* time.Duration(n) * time.Hour as Go computes it, wrapping modulo 2^64 to
\* [-2^63, 2^63), rounded down to whole hours.  An age of a whole number of
\* hours is <= the duration iff it is <= this number.
Int64Hours(n) ==
    LET k == Wraps(n)
    IN n - k * Int64WrapHours - CeilHours(k * Int64WrapTicks)

---------------------------------------------------------------------------
(* retention.Manager *)

\* time.Time.After on snapshots i and j
After(s, t) == s.ModTime > t.ModTime

\* one pass of the insertion sort sort.Slice runs on a short slice: the
\* element at position i moves left while it is newer than its left neighbour
RECURSIVE InsertLeft(_, _)
InsertLeft(s, j) ==
    IF j > 1 /\ After(s[j], s[j - 1])
    THEN InsertLeft([s EXCEPT ![j] = s[j - 1], ![j - 1] = s[j]], j - 1)
    ELSE s

RECURSIVE InsertionSort(_, _)
InsertionSort(s, i) ==
    IF i > Len(s) THEN s ELSE InsertionSort(InsertLeft(s, i), i + 1)

\* sort.Slice(snapshots, newest first)
SortNewestFirst(s) == InsertionSort(s, 2)

\* KeepLastNames comparing the index for equality: only one snapshot is kept
KeepLastNamesOnlyNth(sorted, p) ==
    IF p.KeepLast > 0
    THEN {sorted[i].Name : i \in {i \in 1..Len(sorted) : i = p.KeepLast}}
    ELSE {}

\* KeepLastNames never keeping the oldest snapshot of the slice
KeepLastNamesButOldest(sorted, p) ==
    IF p.KeepLast > 0
    THEN {sorted[i].Name : i \in {i \in 1..Len(sorted) : i - 1 < p.KeepLast /\ i < Len(sorted)}}
    ELSE {}

\* the names kept by the keep-last rule, from the sorted slice
KeepLastNames(sorted, p) ==
    IF p.KeepLast > 0
    THEN {sorted[i].Name : i \in {i \in 1..Len(sorted) : i - 1 < p.KeepLast}}
    ELSE {}

\* Sub without the saturation: the difference wraps as a Duration product does
SubWrapping(t, u) == Int64Hours(t - u)

\* time.Time.Sub, in hours rounded up: the difference, or the largest Duration
\* (Int64HalfHours hours and a fraction) if the difference exceeds it
Sub(t, u) == IF t - u > Int64HalfHours THEN Int64HalfHours + 1 ELSE t - u

\* KeptByWindow taking a count of zero for an enabled window
KeptByWindowNoGuard(s, p, t) ==
    LET age == Sub(t, s.ModTime)
    IN \/ p.KeepLastHours >= 0 /\ age <= Int64Hours(p.KeepLastHours)
       \/ p.KeepLastDays >= 0 /\ age <= Int64Hours(p.KeepLastDays * 24)
       \/ p.KeepLastWeeks >= 0 /\ age <= Int64Hours(p.KeepLastWeeks * 7 * 24)
       \/ p.KeepLastMonths >= 0 /\ age <= Int64Hours(p.KeepLastMonths * 30 * 24)
       \/ p.KeepLastYears >= 0 /\ age <= Int64Hours(p.KeepLastYears * 365 * 24)

\* KeptByWindow with the window's bound excluded
KeptByWindowStrict(s, p, t) ==
    LET age == Sub(t, s.ModTime)
    IN \/ p.KeepLastHours > 0 /\ age < Int64Hours(p.KeepLastHours)
       \/ p.KeepLastDays > 0 /\ age < Int64Hours(p.KeepLastDays * 24)
       \/ p.KeepLastWeeks > 0 /\ age < Int64Hours(p.KeepLastWeeks * 7 * 24)
       \/ p.KeepLastMonths > 0 /\ age < Int64Hours(p.KeepLastMonths * 30 * 24)
       \/ p.KeepLastYears > 0 /\ age < Int64Hours(p.KeepLastYears * 365 * 24)

\* one snapshot against the five keep-within rules
KeptByWindow(s, p, t) ==
    LET age == Sub(t, s.ModTime)
    IN \/ p.KeepLastHours > 0 /\ age <= Int64Hours(p.KeepLastHours)
       \/ p.KeepLastDays > 0 /\ age <= Int64Hours(p.KeepLastDays * 24)
       \/ p.KeepLastWeeks > 0 /\ age <= Int64Hours(p.KeepLastWeeks * 7 * 24)
       \/ p.KeepLastMonths > 0 /\ age <= Int64Hours(p.KeepLastMonths * 30 * 24)
       \/ p.KeepLastYears > 0 /\ age <= Int64Hours(p.KeepLastYears * 365 * 24)

\* Manager.determineSnapshotsToKeep: the names it maps to true
determineSnapshotsToKeep(snaps, p, t) ==
    LET sorted == SortNewestFirst(snaps)
    IN KeepLastNames(sorted, p)
         \cup {s.Name : s \in {s \in Range(sorted) : KeptByWindow(s, p, t)}}

\* Manager.findSnapshotsToDelete
findSnapshotsToDelete(snaps, keep) ==
    SelectSeq(snaps, LAMBDA s : s.Name \notin keep)

---------------------------------------------------------------------------
(* Evaluation of one collection: Manager.GetRetentionStatus *)

Names == {"n1", "n2", "n3"}

\* ages, in hours, of the snapshots at the clock's first reading
Ages == {0, 24, 8760}

ModTimes == {Now0 - a : a \in Ages}

\* retention.SnapshotFile (Size plays no part in a decision and is left out)
SnapshotFile(name, modTime, isRemote) ==
    [Name |-> name, Path |-> name, ModTime |-> modTime, IsRemote |-> isRemote]

SnapshotFiles == {SnapshotFile(n, t, FALSE) : n \in Names, t \in ModTimes}

\* slices of at most n snapshots
Slices(n) == UNION {[1..k -> SnapshotFiles] : k \in 0..n}

Policies ==
    [KeepLast : 0..MaxKeep, KeepLastHours : WindowCounts, KeepLastDays : WindowCounts,
     KeepLastWeeks : WindowCounts, KeepLastMonths : WindowCounts,
     KeepLastYears : WindowCounts]

\* a policy with no rule enabled
NoPolicy ==
    [KeepLast |-> 0, KeepLastHours |-> 0, KeepLastDays |-> 0, KeepLastWeeks |-> 0,
     KeepLastMonths |-> 0, KeepLastYears |-> 0]

\* policies with one window of two units, alone or with a keep-last count
TwoUnitPolicies ==
    UNION {{[NoPolicy EXCEPT !.KeepLast = k, !.KeepLastHours = 2],
            [NoPolicy EXCEPT !.KeepLast = k, !.KeepLastDays = 2],
            [NoPolicy EXCEPT !.KeepLast = k, !.KeepLastWeeks = 2],
            [NoPolicy EXCEPT !.KeepLast = k, !.KeepLastMonths = 2],
            [NoPolicy EXCEPT !.KeepLast = k, !.KeepLastYears = 2]} : k \in 0..MaxKeep}

\* policies with every rule switched off by a zero or a negative count
DisabledPolicies ==
    [KeepLast : {-1, 0}, KeepLastHours : {-1, 0}, KeepLastDays : {-1, 0},
     KeepLastWeeks : {-1, 0}, KeepLastMonths : {-1, 0}, KeepLastYears : {-1, 0}]

\* the zero time.Time, January 1 of year 1, some 2025 years before the clock's
\* first reading
ZeroTime == Now0 - 2025 * 8766

\* the largest count of each window whose duration fits the 64-bit Duration
LargestHours == Int64HalfHours
LargestDays == Int64HalfHours \div 24
LargestWeeks == Int64HalfHours \div (7 * 24)
LargestMonths == Int64HalfHours \div (30 * 24)
LargestYears == Int64HalfHours \div (365 * 24)

\* policies with one window, of one unit or of the largest count that fits,
\* alone or with a keep-last count
WidePolicies ==
    UNION {{[NoPolicy EXCEPT !.KeepLast = k, !.KeepLastHours = h],
            [NoPolicy EXCEPT !.KeepLast = k, !.KeepLastDays = d],
            [NoPolicy EXCEPT !.KeepLast = k, !.KeepLastWeeks = w],
            [NoPolicy EXCEPT !.KeepLast = k, !.KeepLastMonths = m],
            [NoPolicy EXCEPT !.KeepLast = k, !.KeepLastYears = y]} :
           k \in 0..MaxKeep, h \in {0, 1, LargestHours}, d \in {1, LargestDays},
           w \in {1, LargestWeeks}, m \in {1, LargestMonths}, y \in {1, LargestYears}}

\* snapshots of now, of a year ago, and with the zero time for a timestamp
WideSnapshotFiles ==
    {SnapshotFile(n, t, FALSE) : n \in Names, t \in {Now0, Now0 - 8760, ZeroTime}}

WideSlices(n) == UNION {[1..k -> WideSnapshotFiles] : k \in 0..n}

\* the variables of GetRetentionStatus while no call of it runs
EvalIdle ==
    /\ evalInput = <<>>
    /\ snapshots = <<>>
    /\ toKeep = {}
    /\ evalPc = "idle"

\* the variables of the resolvers while no call of them runs
ResolveIdle ==
    /\ resolver = "none"
    /\ filename = <<>>
    /\ stat = <<>>
    /\ resPc = "idle"
    /\ candidates = <<>>
    /\ probed = <<>>
    /\ resolved = <<>>
    /\ Compression = "zstd"

\* the variables of the restore command while it does not run
RestoreIdle ==
    /\ Source = <<>>
    /\ localStat = <<>>
    /\ s3Stat = <<>>
    /\ restorePc = "idle"
    /\ snapshotPath = <<>>
    /\ restoreErr = "none"
    /\ s3Ops = {}

\* a nil *tls.Config
NilTLS == [nil |-> TRUE]

\* the variables of NewClient while it does not run
EtcdIdle ==
    /\ cfg = <<>>
    /\ clientConfig = <<>>
    /\ tlsConfig = NilTLS
    /\ newClientPc = "idle"
    /\ etcdClient = "nil"
    /\ etcdErr = "none"

\* the variables of the s3.Client while none is used
S3KeysIdle ==
    /\ s3Prefix = <<>>
    /\ bucketKeys = {}
    /\ uploaded = {}
    /\ s3Listed = <<>>
    /\ deleted = {}

\* the variables of GetS3Client while no goroutine calls it
GetIdle ==
    /\ Bucket = ""
    /\ s3Mutex = "free"
    /\ ctxClient = 0
    /\ created = 0
    /\ attempts = 0
    /\ getPc = <<>>
    /\ calls = <<>>
    /\ returned = {}

\* the variables of the snapshot command's compression while it does not run
CompressIdle ==
    /\ sCompression = ""
    /\ dirFiles = <<>>
    /\ runPc = "idle"
    /\ finalSnapshotPath = <<>>
    /\ runErr = "none"

\* the variables of the other commands and calls while none of them runs
OtherIdle ==
    /\ RestoreIdle
    /\ EtcdIdle
    /\ S3KeysIdle
    /\ GetIdle
    /\ CompressIdle

\* before the first run
NoRun == [clean |-> FALSE, deleted |-> 0]

\* the variables of a command while none runs
CmdIdle ==
    /\ Local = FALSE
    /\ Remote = FALSE
    /\ Unified = TRUE
    /\ UploadToS3 = TRUE
    /\ RemoveLocal = FALSE
    /\ ApplyRetention = TRUE
    /\ listFails = {}
    /\ cmdPc = "idle"
    /\ cmdErr = "none"
    /\ toUpload = <<>>
    /\ log = {}
    /\ listed = <<>>
    /\ run = 1
    /\ prevRun = NoRun

\* the variables of ApplyUnified while no call of it runs
UnifiedIdle ==
    /\ localFiles = <<>>
    /\ s3Objects = <<>>
    /\ dryRun = FALSE
    /\ s3Client = "nil"
    /\ pc = "idle"
    /\ localSnapshots = <<>>
    /\ s3Snapshots = <<>>
    /\ unifiedSnapshots = <<>>
    /\ retentionDecisions = {}
    /\ localDeleted = <<>>
    /\ keysToDelete = <<>>
    /\ err = "none"

EvalInit ==
    /\ OtherIdle
    /\ policy \in Policies \cup TwoUnitPolicies \cup DisabledPolicies
    /\ now \in Clocks
    /\ evalInput \in Slices(MaxLen)
    /\ snapshots = evalInput
    /\ toKeep = {}
    /\ evalPc = "ready"
    /\ UnifiedIdle
    /\ ResolveIdle
    /\ CmdIdle

GetRetentionStatus ==
    /\ evalPc = "ready"
    /\ snapshots' = SortNewestFirst(snapshots)
    /\ toKeep' = determineSnapshotsToKeep(snapshots, policy, now)
    /\ evalPc' = "done"
    /\ UNCHANGED <<policy, now, otherVars, evalInput, unifiedVars, resolveVars, cmdVars>>

EvalNext == GetRetentionStatus

SpecEval == EvalInit /\ [][EvalNext]_vars

\* GetRetentionStatus over records with a zero timestamp and windows up to the
\* largest the Duration holds
WideInit ==
    /\ OtherIdle
    /\ policy \in WidePolicies
    /\ now = Now0
    /\ evalInput \in WideSlices(MaxLen)
    /\ snapshots = evalInput
    /\ toKeep = {}
    /\ evalPc = "ready"
    /\ UnifiedIdle
    /\ ResolveIdle
    /\ CmdIdle

SpecWide == WideInit /\ [][EvalNext]_vars

---------------------------------------------------------------------------
(* Unified retention: Manager.ApplyUnified *)

\* the names of the snapshots the two stores may hold
StoreNames == {"n1", "n2"}

\* the name of an object that is no snapshot
OtherName == "o1"

\* os.ReadDir returns the directory sorted by filename, and S3 lists keys in
\* ascending order
NameOrder == <<"n1", "n2", "o1">>

Db == <<".", "d", "b">>
Gz == <<".", "g", "z">>
Bz2 == <<".", "b", "z", "2">>
Lz4 == <<".", "l", "z", "4">>
Zst == <<".", "z", "s", "t">>

\* var compressionExts
compressionExts ==
    [none |-> <<>>, gzip |-> Gz, bzip2 |-> Bz2, lz4 |-> Lz4, zstd |-> Zst]

\* strings.HasSuffix
HasSuffix(str, suffix) ==
    /\ Len(suffix) <= Len(str)
    /\ SubSeq(str, Len(str) - Len(suffix) + 1, Len(str)) = suffix

\* compression.GetCompressionExt
GetCompressionExt(algorithm) ==
    IF algorithm \in DOMAIN compressionExts THEN compressionExts[algorithm] ELSE <<>>

\* the names as they are spelled
FileName ==
    [n1 |-> <<"n", "1">> \o Db, n2 |-> <<"n", "2">> \o Db \o Zst,
     o1 |-> <<"o", "1", ".", "t", "x", "t">>]

\* compression.AllCompressionExts
AllCompressionExts == {compressionExts[alg] : alg \in DOMAIN compressionExts} \ {<<>>}

\* filepath.Ext: the suffix beginning at the final dot of the final element of
\* the path, empty if there is no dot
Ext(path) ==
    LET dots == {i \in 1..Len(path) :
                    path[i] = "." /\ \A j \in i..Len(path) : path[j] # "/"}
    IN IF dots = {} THEN <<>>
       ELSE SubSeq(path, CHOOSE i \in dots : \A j \in dots : j <= i, Len(path))

\* strings.Contains
Contains(str, substr) ==
    \E i \in 0..(Len(str) - Len(substr)) : SubSeq(str, i + 1, i + Len(substr)) = substr

\* retention.IsSnapshotFile, of the name as it is spelled
IsSnapshotFile(name) ==
    LET ext == Ext(FileName[name])
    IN \/ ext = Db
       \/ ext \in AllCompressionExts
       \/ Contains(FileName[name], <<"s", "n", "a", "p", "s", "h", "o", "t">>)

\* the bucket with every object listed: the loops of ListCmd.listS3 and
\* ListCmd.getS3RetentionSnapshots over Client.List
ObjectListing(objects) ==
    LET held == SelectSeq(NameOrder, LAMBDA n : n \in DOMAIN objects)
    IN [i \in 1..Len(held) |->
           [Name |-> held[i], Path |-> held[i], ModTime |-> objects[held[i]], IsRemote |-> TRUE]]

\* the buckets that may also hold an object that is no snapshot, the newest
Buckets ==
    {objects \in UNION {[D -> ModTimes] : D \in SUBSET (StoreNames \cup {OtherName})} :
        OtherName \in DOMAIN objects => objects[OtherName] = Now0}


\* the contents a store may have: a ModTime for each name it holds
Stores == UNION {[D -> ModTimes] : D \in SUBSET StoreNames}

\* the listing of a store, in name order
Listing(files, isRemote) ==
    LET held == SelectSeq(NameOrder, LAMBDA n : n \in DOMAIN files /\ IsSnapshotFile(n))
    IN [i \in 1..Len(held) |-> SnapshotFile(held[i], files[held[i]], isRemote)]

\* snapshotMap[s.Name] = s
MapPut(m, s) == [n \in DOMAIN m \cup {s.Name} |-> IF n = s.Name THEN s ELSE m[n]]

\* the first loop of createUnifiedSnapshotList, from element i on
RECURSIVE AddLocal(_, _, _)
AddLocal(m, local, i) ==
    IF i > Len(local) THEN m ELSE AddLocal(MapPut(m, local[i]), local, i + 1)

\* MergeS3Step, replacing the present record also when the timestamps are equal
MergeS3StepOnTie(m, s) ==
    IF s.Name \in DOMAIN m
    THEN IF s.ModTime >= m[s.Name].ModTime THEN MapPut(m, s) ELSE m
    ELSE MapPut(m, s)

\* MergeS3Step, always replacing the present record by the S3 one
MergeS3StepAlways(m, s) == MapPut(m, s)

\* MergeS3Step, never replacing the present record
MergeS3StepNever(m, s) == IF s.Name \in DOMAIN m THEN m ELSE MapPut(m, s)

\* the body of the second loop of createUnifiedSnapshotList
MergeS3Step(m, s) ==
    IF s.Name \in DOMAIN m
    THEN IF After(s, m[s.Name]) THEN MapPut(m, s) ELSE m
    ELSE MapPut(m, s)

RECURSIVE MergeS3(_, _, _)
MergeS3(m, s3, i) ==
    IF i > Len(s3) THEN m ELSE MergeS3(MergeS3Step(m, s3[i]), s3, i + 1)

\* snapshotMap as createUnifiedSnapshotList has filled it
UnifiedSnapshotMap(local, s3) == MergeS3(AddLocal(<<>>, local, 1), s3, 1)

\* the slices a range over the map may build: Go iterates a map in an order
\* that varies from run to run
MapOrders(m) ==
    LET n == Cardinality(DOMAIN m)
    IN {u \in [1..n -> {m[k] : k \in DOMAIN m}] : \A i, j \in 1..n : u[i] = u[j] => i = j}

\* Manager.createUnifiedSnapshotList: the slices it may return
createUnifiedSnapshotList(local, s3) == MapOrders(UnifiedSnapshotMap(local, s3))

\* Manager.GetUnifiedRetentionStatus: the maps it may return
GetUnifiedRetentionStatus(local, s3, p, t) ==
    {determineSnapshotsToKeep(u, p, t) : u \in createUnifiedSnapshotList(local, s3)}

\* the snapshots of a listing that the decisions do not keep
NotKept(listing, decisions) == SelectSeq(listing, LAMBDA s : s.Name \notin decisions)

\* NotKept, reading the decisions the wrong way round
NotKeptInverted(listing, decisions) == SelectSeq(listing, LAMBDA s : s.Name \in decisions)

\* the deletions of applyRetentionToLocal and applyRetentionToS3: the snapshots
\* of the listing whose name the decisions map to false
Selected(listing, decisions) == NotKept(listing, decisions)

Without(files, gone) == [n \in DOMAIN files \ gone |-> files[n]]

Init ==
    /\ OtherIdle
    /\ policy \in Policies
    /\ now = Now0
    /\ EvalIdle
    /\ ResolveIdle
    /\ CmdIdle
    /\ localFiles \in Stores
    /\ s3Objects \in Stores
    /\ dryRun \in BOOLEAN
    /\ s3Client \in {"nil", "client"}
    /\ pc = "GetLocalSnapshots"
    /\ localSnapshots = <<>>
    /\ s3Snapshots = <<>>
    /\ unifiedSnapshots = <<>>
    /\ retentionDecisions = {}
    /\ localDeleted = <<>>
    /\ keysToDelete = <<>>
    /\ err = "none"

\* localSnapshots, err := m.GetLocalSnapshots(snapshotDir)
UnifiedGetLocalSnapshots ==
    /\ pc = "GetLocalSnapshots"
    /\ \/ /\ localSnapshots' = Listing(localFiles, FALSE)
          /\ pc' = "GetS3Snapshots"
          /\ err' = err
       \/ /\ err' = "failed to get local snapshots"
          /\ pc' = "returned"
          /\ UNCHANGED localSnapshots
    /\ UNCHANGED <<policy, now, otherVars, evalVars, resolveVars, cmdVars, localFiles, s3Objects, dryRun, s3Client,
                   s3Snapshots, unifiedSnapshots, retentionDecisions, localDeleted,
                   keysToDelete>>

\* UnifiedGetS3Snapshots, going on with an empty listing after a failed one
UnifiedGetS3SnapshotsSwallowing ==
    /\ pc = "GetS3Snapshots"
    /\ \/ /\ s3Client = "nil"
          /\ UNCHANGED <<s3Snapshots, err>>
       \/ /\ s3Client # "nil"
          /\ s3Snapshots' = Listing(s3Objects, TRUE)
          /\ err' = err
       \/ /\ s3Client # "nil"
          /\ err' = "failed to get S3 snapshots"
          /\ UNCHANGED s3Snapshots
    /\ pc' = "GetUnifiedRetentionStatus"
    /\ UNCHANGED <<policy, now, otherVars, evalVars, resolveVars, cmdVars, localFiles, s3Objects, dryRun, s3Client,
                   localSnapshots, unifiedSnapshots, retentionDecisions, localDeleted,
                   keysToDelete>>

\* if s3Client != nil { s3Snapshots, err = m.GetS3Snapshots(ctx, s3Client) }
UnifiedGetS3Snapshots ==
    /\ pc = "GetS3Snapshots"
    /\ \/ /\ s3Client = "nil"
          /\ pc' = "GetUnifiedRetentionStatus"
          /\ UNCHANGED <<s3Snapshots, err>>
       \/ /\ s3Client # "nil"
          /\ s3Snapshots' = Listing(s3Objects, TRUE)
          /\ pc' = "GetUnifiedRetentionStatus"
          /\ err' = err
       \/ /\ s3Client # "nil"
          /\ err' = "failed to get S3 snapshots"
          /\ pc' = "returned"
          /\ UNCHANGED s3Snapshots
    /\ UNCHANGED <<policy, now, otherVars, evalVars, resolveVars, cmdVars, localFiles, s3Objects, dryRun, s3Client,
                   localSnapshots, unifiedSnapshots, retentionDecisions, localDeleted,
                   keysToDelete>>

\* retentionDecisions := m.GetUnifiedRetentionStatus(localSnapshots, s3Snapshots)
UnifiedGetRetentionStatus ==
    /\ pc = "GetUnifiedRetentionStatus"
    /\ \E u \in createUnifiedSnapshotList(localSnapshots, s3Snapshots) :
          /\ unifiedSnapshots' = u
          /\ retentionDecisions' = determineSnapshotsToKeep(u, policy, now)
    /\ pc' = "applyRetentionToLocal"
    /\ UNCHANGED <<policy, now, otherVars, evalVars, resolveVars, cmdVars, localFiles, s3Objects, dryRun, s3Client,
                   localSnapshots, s3Snapshots, localDeleted, keysToDelete, err>>

\* m.applyRetentionToLocal(localSnapshots, retentionDecisions, dryRun): os.Remove
\* of a selected snapshot may fail, which is logged and leaves the file
UnifiedApplyRetentionToLocal ==
    /\ pc = "applyRetentionToLocal"
    /\ LET sel == Selected(localSnapshots, retentionDecisions)
       IN /\ localDeleted' = [i \in 1..Len(sel) |-> sel[i].Name]
          /\ IF dryRun
             THEN localFiles' = localFiles
             ELSE \E removed \in SUBSET {sel[i].Path : i \in 1..Len(sel)} :
                      localFiles' = Without(localFiles, removed)
    /\ pc' = "applyRetentionToS3"
    /\ UNCHANGED <<policy, now, otherVars, evalVars, resolveVars, cmdVars, s3Objects, dryRun, s3Client, localSnapshots,
                   s3Snapshots, unifiedSnapshots, retentionDecisions, keysToDelete, err>>

\* UnifiedApplyRetentionToS3, deciding afresh from the S3 listing alone
UnifiedApplyRetentionToS3Redeciding ==
    /\ pc = "applyRetentionToS3"
    /\ \/ /\ s3Client = "nil"
          /\ UNCHANGED <<keysToDelete, s3Objects, retentionDecisions>>
       \/ /\ s3Client # "nil"
          /\ retentionDecisions' = determineSnapshotsToKeep(s3Snapshots, policy, now)
          /\ LET sel == NotKept(s3Snapshots, retentionDecisions')
             IN /\ keysToDelete' = [i \in 1..Len(sel) |-> sel[i].Path]
                /\ IF Len(sel) > 0 /\ ~dryRun
                   THEN \E removed \in SUBSET {sel[i].Path : i \in 1..Len(sel)} :
                            s3Objects' = Without(s3Objects, removed)
                   ELSE s3Objects' = s3Objects
    /\ pc' = "returned"
    /\ UNCHANGED <<policy, now, otherVars, evalVars, resolveVars, cmdVars, localFiles, dryRun, s3Client, localSnapshots,
                   s3Snapshots, unifiedSnapshots, localDeleted, err>>

\* if s3Client != nil { m.applyRetentionToS3(...) }: DeleteMultiple may fail after
\* deleting some of the keys, which is logged
UnifiedApplyRetentionToS3 ==
    /\ pc = "applyRetentionToS3"
    /\ \/ /\ s3Client = "nil"
          /\ UNCHANGED <<keysToDelete, s3Objects>>
       \/ /\ s3Client # "nil"
          /\ LET sel == Selected(s3Snapshots, retentionDecisions)
             IN /\ keysToDelete' = [i \in 1..Len(sel) |-> sel[i].Path]
                /\ IF Len(sel) > 0 /\ ~dryRun
                   THEN \E removed \in SUBSET {sel[i].Path : i \in 1..Len(sel)} :
                            s3Objects' = Without(s3Objects, removed)
                   ELSE s3Objects' = s3Objects
    /\ pc' = "returned"
    /\ UNCHANGED <<policy, now, otherVars, evalVars, resolveVars, cmdVars, localFiles, dryRun, s3Client, localSnapshots,
                   s3Snapshots, unifiedSnapshots, retentionDecisions, localDeleted, err>>

\* Manager.ApplyUnified, statement by statement
ApplyUnified ==
    \/ UnifiedGetLocalSnapshots
    \/ UnifiedGetS3Snapshots
    \/ UnifiedGetRetentionStatus
    \/ UnifiedApplyRetentionToLocal
    \/ UnifiedApplyRetentionToS3

Next == ApplyUnified

Spec == Init /\ [][Next]_vars

---------------------------------------------------------------------------
(* Compression-aware name resolution.  A string is the sequence of its       *)
(* characters.                                                                *)

\* compression.GetCompressionAlgorithmFromExt: the algorithms it may return, its
\* loop ranging over the map in any order
GetCompressionAlgorithmFromExt(name) ==
    LET hits == {alg \in DOMAIN compressionExts :
                    compressionExts[alg] # <<>> /\ HasSuffix(name, compressionExts[alg])}
    IN IF hits = {} THEN {"none"} ELSE hits

\* compression.IsCompressed
IsCompressed(name) == \E alg \in GetCompressionAlgorithmFromExt(name) : alg # "none"

\* the order of preference with gzip put first
PreferenceGzipFirst == <<"gzip", "zstd", "lz4", "bzip2">>

\* the order of preference of ResolveCompressedFilename
Preference == <<"zstd", "gzip", "lz4", "bzip2">>

\* the loop of ResolveCompressedFilename over the algorithms from the i-th on
RECURSIVE AppendCompressed(_, _, _)
AppendCompressed(cands, base, i) ==
    IF i > Len(Preference) THEN cands
    ELSE LET ext == GetCompressionExt(Preference[i])
         IN AppendCompressed(IF ext # <<>> THEN Append(cands, base \o ext) ELSE cands,
                             base, i + 1)

\* compression.ResolveCompressedFilename
ResolveCompressedFilename(name) ==
    IF IsCompressed(name) THEN <<name>>
    ELSE IF HasSuffix(name, Db) THEN Append(AppendCompressed(<<>>, name, 1), name)
    ELSE <<name>>

\* Client.Exists, a failing Stat taken for a missing object whatever the error
ExistsSwallowingErrors(answer) ==
    [exists |-> answer = "object", err |-> FALSE]

\* Client.Exists on what Stat answers: the object, an error saying not found or
\* NoSuchKey, or another error
Exists(answer) ==
    [exists |-> answer = "object", err |-> answer = "error"]

\* StatFound without the test of the size
StatFoundAnySize(answer) == answer \in {"file", "empty"}

\* the test of ResolveCompressedFile on what os.Stat answers: a file with
\* content, an empty file, a directory, or an error
StatFound(answer) == answer = "file"

S3Answers == {"object", "not found", "error"}
LocalAnswers == {"file", "empty", "dir", "absent"}

\* the values --compression takes
CompressionAlgorithms == {"none", "bzip2", "gzip", "lz4", "zstd"}

Stems == {<<>>, <<"s">>}
Endings == {<<>>, Db, Zst, Gz, Lz4, Bz2, <<"d", "b">>, <<"z">>}

\* the names asked for
FileNames == {stem \o e1 \o e2 : stem \in Stems, e1 \in Endings, e2 \in Endings}

ResolveInit ==
    /\ OtherIdle
    /\ policy = NoPolicy
    /\ now = Now0
    /\ EvalIdle
    /\ UnifiedIdle
    /\ CmdIdle
    /\ Compression \in CompressionAlgorithms
    /\ resolver \in {"s3", "local"}
    /\ filename \in FileNames
    /\ stat \in [Range(ResolveCompressedFilename(filename)) ->
                    IF resolver = "s3" THEN S3Answers ELSE LocalAnswers]
    /\ resPc = "call"
    /\ candidates = <<>>
    /\ probed = <<>>
    /\ resolved = <<>>

\* candidates := compression.ResolveCompressedFilename(key)
ResolveCandidates ==
    /\ resPc = "call"
    /\ candidates' = ResolveCompressedFilename(filename)
    /\ resPc' = "loop"
    /\ UNCHANGED <<policy, now, otherVars, evalVars, unifiedVars, cmdVars, Compression, resolver, filename, stat, probed,
                   resolved>>

\* Client.ResolveCompressedKey: one turn of its loop, or the return after it
ProbeS3 ==
    /\ resolver = "s3"
    /\ resPc = "loop"
    /\ IF Len(probed) < Len(candidates)
       THEN LET candidate == candidates[Len(probed) + 1]
                r == Exists(stat[candidate])
            IN /\ probed' = Append(probed, candidate)
               /\ IF r.err
                  THEN /\ resolved' = [name |-> <<>>, found |-> FALSE, err |-> TRUE]
                       /\ resPc' = "returned"
                  ELSE IF r.exists
                  THEN /\ resolved' = [name |-> candidate, found |-> TRUE, err |-> FALSE]
                       /\ resPc' = "returned"
                  ELSE UNCHANGED <<resolved, resPc>>
       ELSE /\ resolved' = [name |-> filename, found |-> FALSE, err |-> FALSE]
            /\ resPc' = "returned"
            /\ UNCHANGED probed
    /\ UNCHANGED <<policy, now, otherVars, evalVars, unifiedVars, cmdVars, Compression, resolver, filename, stat, candidates>>

\* compression.ResolveCompressedFile: one turn of its loop, or the return after it
ProbeLocal ==
    /\ resolver = "local"
    /\ resPc = "loop"
    /\ IF Len(probed) < Len(candidates)
       THEN LET candidate == candidates[Len(probed) + 1]
            IN /\ probed' = Append(probed, candidate)
               /\ IF StatFound(stat[candidate])
                  THEN /\ resolved' = [name |-> candidate, found |-> TRUE, err |-> FALSE]
                       /\ resPc' = "returned"
                  ELSE UNCHANGED <<resolved, resPc>>
       ELSE /\ resolved' = [name |-> filename, found |-> FALSE, err |-> FALSE]
            /\ resPc' = "returned"
            /\ UNCHANGED probed
    /\ UNCHANGED <<policy, now, otherVars, evalVars, unifiedVars, cmdVars, Compression, resolver, filename, stat, candidates>>

ResolveNext == ResolveCandidates \/ ProbeS3 \/ ProbeLocal

SpecResolve == ResolveInit /\ [][ResolveNext]_vars

---------------------------------------------------------------------------
(* The catch-up step of the snapshot command: SnapshotCmd.uploadMissingSnapshots *)

\* the policies the commands are run with
CmdPolicies ==
    [KeepLast : 0..MaxKeep, KeepLastHours : {0}, KeepLastDays : WindowCounts,
     KeepLastWeeks : {0}, KeepLastMonths : {0}, KeepLastYears : {0}]

\* the listings that may fail
ListFailures == SUBSET {"local", "s3"}

AllPresentMsg == "All local snapshots that should be kept are already present in S3"
UploadedMsg == "Successfully uploaded"

\* what uploadMissingSnapshots neither reads nor writes
catchUpFrame ==
    <<policy, now, otherVars, evalVars, resolveVars, flagVars, cmdPc, cmdErr, listed, run, prevRun,
      localFiles, dryRun, s3Client, unifiedSnapshots, localDeleted, keysToDelete>>

\* the keys of s3SnapshotNames
s3SnapshotNames(s3) == {s3[i].Name : i \in 1..Len(s3)}

\* the selection of uploadMissingSnapshots without the look at the decisions
MissingFromS3IgnoringDecisions(local, decisions, s3Names) ==
    SelectSeq(local, LAMBDA s : s.Name \notin s3Names)

\* the loop that fills toUpload
MissingFromS3(local, decisions, s3Names) ==
    SelectSeq(local, LAMBDA s : s.Name \in decisions /\ s.Name \notin s3Names)

\* the bucket after the files named in ok were uploaded
Uploaded(objects, ok, t) ==
    [n \in DOMAIN objects \cup ok |-> IF n \in ok THEN t ELSE objects[n]]

\* s3Client, err := ctx.GetS3Client()
UploadMissingGetS3Client ==
    /\ pc = "uploadMissingSnapshots"
    /\ IF s3Client = "nil"
       THEN /\ err' = "failed to create S3 client"
            /\ pc' = "returned"
       ELSE /\ err' = err
            /\ pc' = "uploadMissing:GetLocalSnapshots"
    /\ UNCHANGED <<catchUpFrame, s3Objects, localSnapshots, s3Snapshots, retentionDecisions,
                   toUpload, log>>

\* localSnapshots, err := retentionManager.GetLocalSnapshots(...)
UploadMissingGetLocalSnapshots ==
    /\ pc = "uploadMissing:GetLocalSnapshots"
    /\ IF "local" \in listFails
       THEN /\ err' = "failed to get local snapshots"
            /\ pc' = "returned"
            /\ UNCHANGED localSnapshots
       ELSE /\ localSnapshots' = Listing(localFiles, FALSE)
            /\ pc' = "uploadMissing:GetS3Snapshots"
            /\ err' = err
    /\ UNCHANGED <<catchUpFrame, s3Objects, s3Snapshots, retentionDecisions, toUpload, log>>

\* UploadMissingGetS3Snapshots, a failed listing taken for an empty one
UploadMissingGetS3SnapshotsSwallowing ==
    /\ pc = "uploadMissing:GetS3Snapshots"
    /\ s3Snapshots' = IF "s3" \in listFails THEN <<>> ELSE Listing(s3Objects, TRUE)
    /\ pc' = "uploadMissing:select"
    /\ UNCHANGED <<catchUpFrame, s3Objects, localSnapshots, retentionDecisions, toUpload, log,
                   err>>

\* s3Snapshots, err := retentionManager.GetS3Snapshots(...)
UploadMissingGetS3Snapshots ==
    /\ pc = "uploadMissing:GetS3Snapshots"
    /\ IF "s3" \in listFails
       THEN /\ err' = "failed to get S3 snapshots"
            /\ pc' = "returned"
            /\ UNCHANGED s3Snapshots
       ELSE /\ s3Snapshots' = Listing(s3Objects, TRUE)
            /\ pc' = "uploadMissing:select"
            /\ err' = err
    /\ UNCHANGED <<catchUpFrame, s3Objects, localSnapshots, retentionDecisions, toUpload, log>>

\* the decisions and the loop that fills toUpload; GetRetentionStatus sorts the
\* local listing in place
UploadMissingSelect ==
    /\ pc = "uploadMissing:select"
    /\ \E decisions \in
              IF Unified
              THEN GetUnifiedRetentionStatus(localSnapshots, s3Snapshots, policy, now)
              ELSE {determineSnapshotsToKeep(localSnapshots, policy, now)} :
          /\ retentionDecisions' = decisions
          /\ localSnapshots' =
                 IF Unified THEN localSnapshots ELSE SortNewestFirst(localSnapshots)
          /\ toUpload' = MissingFromS3(localSnapshots', decisions, s3SnapshotNames(s3Snapshots))
    /\ IF Len(toUpload') = 0
       THEN /\ log' = log \cup {AllPresentMsg}
            /\ pc' = "returned"
       ELSE /\ log' = log
            /\ pc' = "uploadMissing:Upload"
    /\ UNCHANGED <<catchUpFrame, s3Objects, s3Snapshots, err>>

\* the loop of uploads: a failed upload is logged and the loop goes on
UploadMissingUpload ==
    /\ pc = "uploadMissing:Upload"
    /\ \E ok \in SUBSET s3SnapshotNames(toUpload) :
          /\ s3Objects' = Uploaded(s3Objects, ok, now)
          /\ log' = IF ok = {} THEN log ELSE log \cup {UploadedMsg}
    /\ pc' = "returned"
    /\ UNCHANGED <<catchUpFrame, localSnapshots, s3Snapshots, retentionDecisions, toUpload, err>>

\* SnapshotCmd.uploadMissingSnapshots, statement by statement
uploadMissingSnapshots ==
    \/ UploadMissingGetS3Client
    \/ UploadMissingGetLocalSnapshots
    \/ UploadMissingGetS3Snapshots
    \/ UploadMissingSelect
    \/ UploadMissingUpload

CatchUpInit ==
    /\ OtherIdle
    /\ policy \in CmdPolicies
    /\ now = Now0
    /\ EvalIdle
    /\ ResolveIdle
    /\ Local = FALSE
    /\ Remote = FALSE
    /\ Unified \in BOOLEAN
    /\ UploadToS3 = TRUE
    /\ RemoveLocal = FALSE
    /\ ApplyRetention = TRUE
    /\ listFails \in ListFailures
    /\ cmdPc = "idle"
    /\ cmdErr = "none"
    /\ toUpload = <<>>
    /\ log = {}
    /\ listed = <<>>
    /\ run = 1
    /\ prevRun = NoRun
    /\ localFiles \in Stores
    /\ s3Objects \in Stores
    /\ dryRun = FALSE
    /\ s3Client \in {"nil", "client"}
    /\ pc = "uploadMissingSnapshots"
    /\ localSnapshots = <<>>
    /\ s3Snapshots = <<>>
    /\ unifiedSnapshots = <<>>
    /\ retentionDecisions = {}
    /\ localDeleted = <<>>
    /\ keysToDelete = <<>>
    /\ err = "none"

CatchUpNext == uploadMissingSnapshots

SpecCatchUp == CatchUpInit /\ [][CatchUpNext]_vars

---------------------------------------------------------------------------
(* The list command: ListCmd.Run *)

\* what the list command neither reads nor writes
listFrame ==
    <<policy, now, otherVars, evalVars, resolveVars, flagVars, toUpload, run, prevRun, localFiles,
      s3Objects, dryRun, s3Client, pc, unifiedSnapshots, localDeleted, keysToDelete, err>>

\* the SnapshotInfo rows of a listing under the decisions
SnapshotInfos(listing, decisions) ==
    [i \in 1..Len(listing) |->
        [Name |-> listing[i].Name,
         Location |-> IF listing[i].IsRemote THEN "s3" ELSE "local",
         Modified |-> listing[i].ModTime,
         Retention |-> IF listing[i].Name \in decisions THEN "keep" ELSE "delete"]]

\* ListCmd.Run
ListRun ==
    /\ cmdPc = "Run"
    /\ cmdPc' = IF Unified /\ ~Local /\ ~Remote
                THEN "runUnifiedList:local"
                ELSE "runSeparateList:local"
    /\ UNCHANGED <<listFrame, localSnapshots, s3Snapshots, retentionDecisions, listed, log, cmdErr>>

\* runUnifiedList: getLocalRetentionSnapshots, its error logged and the listing
\* set to nil
ListUnifiedLocal ==
    /\ cmdPc = "runUnifiedList:local"
    /\ IF "local" \in listFails
       THEN /\ log' = log \cup {"Failed to get local snapshots"}
            /\ localSnapshots' = <<>>
       ELSE /\ log' = log
            /\ localSnapshots' = Listing(localFiles, FALSE)
    /\ cmdPc' = "runUnifiedList:s3"
    /\ UNCHANGED <<listFrame, s3Snapshots, retentionDecisions, listed, cmdErr>>

\* runUnifiedList: getS3RetentionSnapshots, its error logged and the listing set
\* to nil
ListUnifiedS3 ==
    /\ cmdPc = "runUnifiedList:s3"
    /\ IF s3Client = "nil" \/ "s3" \in listFails
       THEN /\ log' = log \cup {"Failed to get S3 snapshots"}
            /\ s3Snapshots' = <<>>
       ELSE /\ log' = log
            /\ s3Snapshots' = ObjectListing(s3Objects)
    /\ cmdPc' = "runUnifiedList:output"
    /\ UNCHANGED <<listFrame, localSnapshots, retentionDecisions, listed, cmdErr>>

\* runUnifiedList: the decisions, the rows of both listings sorted newest first,
\* and the output
ListUnifiedOutput ==
    /\ cmdPc = "runUnifiedList:output"
    /\ \E decisions \in GetUnifiedRetentionStatus(localSnapshots, s3Snapshots, policy, now) :
          /\ retentionDecisions' = decisions
          /\ listed' = SnapshotInfos(SortNewestFirst(localSnapshots \o s3Snapshots), decisions)
    /\ cmdErr' = "none"
    /\ cmdPc' = "done"
    /\ UNCHANGED <<listFrame, localSnapshots, s3Snapshots, log>>

\* runSeparateList: listLocal unless --remote, its error logged
ListSeparateLocal ==
    /\ cmdPc = "runSeparateList:local"
    /\ IF Remote
       THEN UNCHANGED <<log, localSnapshots, listed>>
       ELSE IF "local" \in listFails
       THEN /\ log' = log \cup {"Failed to list local snapshots"}
            /\ UNCHANGED <<localSnapshots, listed>>
       ELSE /\ log' = log
            /\ localSnapshots' = SortNewestFirst(Listing(localFiles, FALSE))
            /\ listed' = SnapshotInfos(localSnapshots',
                               determineSnapshotsToKeep(Listing(localFiles, FALSE), policy, now))
    /\ cmdPc' = "runSeparateList:s3"
    /\ UNCHANGED <<listFrame, s3Snapshots, retentionDecisions, cmdErr>>

\* runSeparateList: listS3 unless --local, its error logged
ListSeparateS3 ==
    /\ cmdPc = "runSeparateList:s3"
    /\ IF Local
       THEN UNCHANGED <<log, s3Snapshots, listed>>
       ELSE IF s3Client = "nil" \/ "s3" \in listFails
       THEN /\ log' = log \cup {"Failed to list S3 snapshots"}
            /\ UNCHANGED <<s3Snapshots, listed>>
       ELSE /\ log' = log
            /\ s3Snapshots' = SortNewestFirst(ObjectListing(s3Objects))
            /\ listed' = listed \o SnapshotInfos(s3Snapshots',
                               determineSnapshotsToKeep(ObjectListing(s3Objects), policy, now))
    /\ cmdPc' = "runSeparateList:output"
    /\ UNCHANGED <<listFrame, localSnapshots, retentionDecisions, cmdErr>>

\* the rows sorted by Modified, newest first
SortInfos(infos) ==
    LET asFiles == [i \in 1..Len(infos) |->
                       [Name |-> infos[i].Name, Path |-> infos[i].Retention,
                        ModTime |-> infos[i].Modified, IsRemote |-> infos[i].Location = "s3"]]
        sorted == SortNewestFirst(asFiles)
    IN [i \in 1..Len(sorted) |->
           [Name |-> sorted[i].Name,
            Location |-> IF sorted[i].IsRemote THEN "s3" ELSE "local",
            Modified |-> sorted[i].ModTime,
            Retention |-> sorted[i].Path]]

\* runSeparateList: the sort and the output
ListSeparateOutput ==
    /\ cmdPc = "runSeparateList:output"
    /\ listed' = SortInfos(listed)
    /\ cmdErr' = "none"
    /\ cmdPc' = "done"
    /\ UNCHANGED <<listFrame, localSnapshots, s3Snapshots, retentionDecisions, log>>

ListInit ==
    /\ OtherIdle
    /\ policy \in CmdPolicies
    /\ now = Now0
    /\ EvalIdle
    /\ ResolveIdle
    /\ Local \in BOOLEAN
    /\ Remote \in BOOLEAN
    /\ Unified \in BOOLEAN
    /\ UploadToS3 = TRUE
    /\ RemoveLocal = FALSE
    /\ ApplyRetention = TRUE
    /\ listFails \in ListFailures
    /\ cmdPc = "Run"
    /\ cmdErr = "none"
    /\ toUpload = <<>>
    /\ log = {}
    /\ listed = <<>>
    /\ run = 1
    /\ prevRun = NoRun
    /\ localFiles \in Stores
    /\ s3Objects \in Buckets
    /\ dryRun = FALSE
    /\ s3Client \in {"nil", "client"}
    /\ pc = "idle"
    /\ localSnapshots = <<>>
    /\ s3Snapshots = <<>>
    /\ unifiedSnapshots = <<>>
    /\ retentionDecisions = {}
    /\ localDeleted = <<>>
    /\ keysToDelete = <<>>
    /\ err = "none"

ListNext ==
    \/ ListRun
    \/ ListUnifiedLocal
    \/ ListUnifiedS3
    \/ ListUnifiedOutput
    \/ ListSeparateLocal
    \/ ListSeparateS3
    \/ ListSeparateOutput

SpecList == ListInit /\ [][ListNext]_vars

---------------------------------------------------------------------------
(* Manager.ApplyLocal and Manager.ApplyS3 *)

\* what ApplyLocal and ApplyS3 neither read nor write
applyFrame == <<policy, now, otherVars, evalVars, resolveVars, cmdVars, dryRun, s3Client, unifiedSnapshots>>

\* the Name of each record of a slice, in order
NameSeq(snaps) == [i \in 1..Len(snaps) |-> snaps[i].Name]

\* the Path of each record of a slice, in order
PathSeq(snaps) == [i \in 1..Len(snaps) |-> snaps[i].Path]

\* ApplyLocal: snapshots, err := m.GetLocalSnapshots(snapshotDir)
ApplyLocalGetLocalSnapshots ==
    /\ pc = "ApplyLocal:GetLocalSnapshots"
    /\ IF "local" \in listFails
       THEN /\ err' = "failed to get local snapshots"
            /\ pc' = "returned"
            /\ UNCHANGED localSnapshots
       ELSE /\ localSnapshots' = Listing(localFiles, FALSE)
            /\ pc' = "ApplyLocal:decide"
            /\ err' = err
    /\ UNCHANGED <<applyFrame, localFiles, s3Objects, s3Snapshots, retentionDecisions,
                   localDeleted, keysToDelete>>

\* ApplyLocal: toKeep and toDelete; determineSnapshotsToKeep sorts the slice in
\* place
ApplyLocalDecide ==
    /\ pc = "ApplyLocal:decide"
    /\ retentionDecisions' = determineSnapshotsToKeep(localSnapshots, policy, now)
    /\ localSnapshots' = SortNewestFirst(localSnapshots)
    /\ localDeleted' = NameSeq(findSnapshotsToDelete(localSnapshots', retentionDecisions'))
    /\ pc' = "ApplyLocal:delete"
    /\ UNCHANGED <<applyFrame, localFiles, s3Objects, s3Snapshots, keysToDelete, err>>

\* ApplyLocal: the loop of os.Remove, a failed removal logged
ApplyLocalDelete ==
    /\ pc = "ApplyLocal:delete"
    /\ IF dryRun
       THEN localFiles' = localFiles
       ELSE \E removed \in SUBSET Range(localDeleted) : localFiles' = Without(localFiles, removed)
    /\ pc' = "returned"
    /\ UNCHANGED <<applyFrame, s3Objects, localSnapshots, s3Snapshots, retentionDecisions,
                   localDeleted, keysToDelete, err>>

\* Manager.ApplyLocal, statement by statement
ApplyLocal == ApplyLocalGetLocalSnapshots \/ ApplyLocalDecide \/ ApplyLocalDelete

\* ApplyS3: snapshots, err := m.GetS3Snapshots(ctx, s3Client)
ApplyS3GetS3Snapshots ==
    /\ pc = "ApplyS3:GetS3Snapshots"
    /\ IF "s3" \in listFails
       THEN /\ err' = "failed to get S3 snapshots"
            /\ pc' = "returned"
            /\ UNCHANGED s3Snapshots
       ELSE /\ s3Snapshots' = Listing(s3Objects, TRUE)
            /\ pc' = "ApplyS3:decide"
            /\ err' = err
    /\ UNCHANGED <<applyFrame, localFiles, s3Objects, localSnapshots, retentionDecisions,
                   localDeleted, keysToDelete>>

\* ApplyS3: toKeep, toDelete and the keys
ApplyS3Decide ==
    /\ pc = "ApplyS3:decide"
    /\ retentionDecisions' = determineSnapshotsToKeep(s3Snapshots, policy, now)
    /\ s3Snapshots' = SortNewestFirst(s3Snapshots)
    /\ keysToDelete' = PathSeq(findSnapshotsToDelete(s3Snapshots', retentionDecisions'))
    /\ pc' = "ApplyS3:delete"
    /\ UNCHANGED <<applyFrame, localFiles, s3Objects, localSnapshots, localDeleted, err>>

\* ApplyS3: DeleteMultiple, which may stop at a failed deletion and return its
\* error
ApplyS3Delete ==
    /\ pc = "ApplyS3:delete"
    /\ IF Len(keysToDelete) > 0 /\ ~dryRun
       THEN \E removed \in SUBSET Range(keysToDelete) :
                /\ s3Objects' = Without(s3Objects, removed)
                /\ \/ err' = err
                   \/ err' = "failed to delete S3 snapshots"
       ELSE UNCHANGED <<s3Objects, err>>
    /\ pc' = "returned"
    /\ UNCHANGED <<applyFrame, localFiles, localSnapshots, s3Snapshots, retentionDecisions,
                   localDeleted, keysToDelete>>

\* Manager.ApplyS3, statement by statement
ApplyS3 == ApplyS3GetS3Snapshots \/ ApplyS3Decide \/ ApplyS3Delete

---------------------------------------------------------------------------
(* The cleanup command: CleanupCmd.Run *)

\* the runs of the cleanup command that are followed
MaxRuns == 2

\* what the cleanup command itself neither reads nor writes
cleanupFrame ==
    <<policy, now, otherVars, evalVars, resolveVars, flagVars, toUpload, listed, run, prevRun, localFiles,
      s3Objects, dryRun, s3Client, localSnapshots, s3Snapshots, unifiedSnapshots,
      retentionDecisions, localDeleted, keysToDelete>>

\* the message logged for the return of a retention call
Logged(e, failure, success) == IF e # "none" THEN {failure} ELSE {success}

\* CleanupCmd.Run
CleanupRun ==
    /\ cmdPc = "Run"
    /\ cmdPc' = IF Unified /\ ~Local /\ ~Remote
                THEN "runUnifiedCleanup"
                ELSE "runSeparateCleanup:local"
    /\ UNCHANGED <<cleanupFrame, cmdErr, log, pc, err>>

\* runUnifiedCleanup: the client or nil, and the call of ApplyUnified
CleanupUnifiedCall ==
    /\ cmdPc = "runUnifiedCleanup"
    /\ log' = IF s3Client = "nil"
              THEN log \cup {"S3 client unavailable, will only clean local snapshots"}
              ELSE log
    /\ pc' = "GetLocalSnapshots"
    /\ cmdPc' = "ApplyUnified"
    /\ UNCHANGED <<cleanupFrame, cmdErr, err>>

\* runUnifiedCleanup: the return of ApplyUnified is returned
CleanupUnifiedReturn ==
    /\ cmdPc = "ApplyUnified"
    /\ pc = "returned"
    /\ log' = log \cup Logged(err, "Failed to apply unified retention policy",
                              "Unified cleanup operation completed")
    /\ cmdErr' = err
    /\ cmdPc' = "done"
    /\ UNCHANGED <<cleanupFrame, pc, err>>

\* runSeparateCleanup: ApplyLocal is called unless --remote
CleanupSeparateLocal ==
    /\ cmdPc = "runSeparateCleanup:local"
    /\ IF Remote
       THEN /\ cmdPc' = "runSeparateCleanup:s3"
            /\ UNCHANGED pc
       ELSE /\ cmdPc' = "ApplyLocal"
            /\ pc' = "ApplyLocal:GetLocalSnapshots"
    /\ UNCHANGED <<cleanupFrame, cmdErr, log, err>>

\* runSeparateCleanup: the return of ApplyLocal is logged
CleanupSeparateLocalReturn ==
    /\ cmdPc = "ApplyLocal"
    /\ pc = "returned"
    /\ log' = log \cup Logged(err, "Failed to clean local snapshots",
                              "Local snapshot cleanup completed")
    /\ pc' = "idle"
    /\ err' = "none"
    /\ cmdPc' = "runSeparateCleanup:s3"
    /\ UNCHANGED <<cleanupFrame, cmdErr>>

\* CleanupSeparateS3 without the look at --local
CleanupSeparateS3IgnoringLocal ==
    /\ cmdPc = "runSeparateCleanup:s3"
    /\ IF s3Client = "nil"
       THEN /\ log' = log \cup {"Failed to create S3 client"}
            /\ cmdErr' = "none"
            /\ cmdPc' = "done"
            /\ UNCHANGED pc
       ELSE /\ cmdPc' = "ApplyS3"
            /\ pc' = "ApplyS3:GetS3Snapshots"
            /\ UNCHANGED <<log, cmdErr>>
    /\ UNCHANGED <<cleanupFrame, err>>

\* runSeparateCleanup: ApplyS3 is called unless --local or no client can be had
CleanupSeparateS3 ==
    /\ cmdPc = "runSeparateCleanup:s3"
    /\ IF Local
       THEN /\ cmdErr' = "none"
            /\ cmdPc' = "done"
            /\ UNCHANGED <<log, pc>>
       ELSE IF s3Client = "nil"
       THEN /\ log' = log \cup {"Failed to create S3 client"}
            /\ cmdErr' = "none"
            /\ cmdPc' = "done"
            /\ UNCHANGED pc
       ELSE /\ cmdPc' = "ApplyS3"
            /\ pc' = "ApplyS3:GetS3Snapshots"
            /\ UNCHANGED <<log, cmdErr>>
    /\ UNCHANGED <<cleanupFrame, err>>

\* runSeparateCleanup: the return of ApplyS3 is logged, and nil is returned
CleanupSeparateS3Return ==
    /\ cmdPc = "ApplyS3"
    /\ pc = "returned"
    /\ log' = log \cup Logged(err, "Failed to clean S3 snapshots",
                              "S3 snapshot cleanup completed")
    /\ cmdErr' = "none"
    /\ cmdPc' = "done"
    /\ UNCHANGED <<cleanupFrame, pc, err>>

\* the unified cleanup is run once more, with the same flags and policy at the
\* same instant, on the stores as the run before left them
CleanupAgain ==
    /\ cmdPc = "done"
    /\ Unified /\ ~Local /\ ~Remote
    /\ run < MaxRuns
    /\ run' = run + 1
    /\ prevRun' = [clean |-> /\ cmdErr = "none"
                             /\ Range(localDeleted) \cap DOMAIN localFiles = {}
                             /\ Range(keysToDelete) \cap DOMAIN s3Objects = {},
                   deleted |-> Len(localDeleted) + Len(keysToDelete)]
    /\ cmdPc' = "Run"
    /\ cmdErr' = "none"
    /\ log' = {}
    /\ pc' = "idle"
    /\ localSnapshots' = <<>>
    /\ s3Snapshots' = <<>>
    /\ unifiedSnapshots' = <<>>
    /\ retentionDecisions' = {}
    /\ localDeleted' = <<>>
    /\ keysToDelete' = <<>>
    /\ err' = "none"
    /\ UNCHANGED <<policy, now, otherVars, evalVars, resolveVars, flagVars, toUpload, listed, localFiles,
                   s3Objects, dryRun, s3Client>>

\* ApplyUnified picks the failures of its listings itself
CleanupInit ==
    /\ OtherIdle
    /\ policy \in CmdPolicies
    /\ now = Now0
    /\ EvalIdle
    /\ ResolveIdle
    /\ Local \in BOOLEAN
    /\ Remote \in BOOLEAN
    /\ Unified \in BOOLEAN
    /\ UploadToS3 = TRUE
    /\ RemoveLocal = FALSE
    /\ ApplyRetention = TRUE
    /\ listFails \in ListFailures
    /\ (Unified /\ ~Local /\ ~Remote) => listFails = {}
    /\ cmdPc = "Run"
    /\ cmdErr = "none"
    /\ toUpload = <<>>
    /\ log = {}
    /\ listed = <<>>
    /\ run = 1
    /\ prevRun = NoRun
    /\ localFiles \in Stores
    /\ s3Objects \in Stores
    /\ dryRun \in BOOLEAN
    /\ s3Client \in {"nil", "client"}
    /\ pc = "idle"
    /\ localSnapshots = <<>>
    /\ s3Snapshots = <<>>
    /\ unifiedSnapshots = <<>>
    /\ retentionDecisions = {}
    /\ localDeleted = <<>>
    /\ keysToDelete = <<>>
    /\ err = "none"

CleanupNext ==
    \/ CleanupRun
    \/ CleanupUnifiedCall
    \/ ApplyUnified
    \/ CleanupUnifiedReturn
    \/ CleanupSeparateLocal
    \/ ApplyLocal
    \/ CleanupSeparateLocalReturn
    \/ CleanupSeparateS3
    \/ ApplyS3
    \/ CleanupSeparateS3Return
    \/ CleanupAgain

SpecCleanup == CleanupInit /\ [][CleanupNext]_vars

---------------------------------------------------------------------------
(* The snapshot command: SnapshotCmd.Run *)

\* the name of the snapshot the command takes
NewSnapshot == "n2"

\* the snapshot directory before the command: the earlier snapshot or none
EarlierStores == UNION {[D -> ModTimes] : D \in SUBSET (StoreNames \ {NewSnapshot})}

UploadedToS3Msg == "Snapshot uploaded to S3"
RemovedLocalMsg == "Local snapshot removed"

\* what the snapshot command itself neither reads nor writes
snapshotFrame ==
    <<policy, now, otherVars, evalVars, resolveVars, flagVars, listed, run, prevRun, dryRun, s3Client,
      unifiedSnapshots>>

\* the snapshot is taken and compressed into the snapshot directory, or the
\* command returns the error of the step that failed
SnapshotTake ==
    /\ cmdPc = "Run"
    /\ \/ /\ localFiles' = Uploaded(localFiles, {NewSnapshot}, now)
          /\ cmdPc' = "upload"
          /\ UNCHANGED cmdErr
       \/ /\ cmdErr' = "failed to take etcd snapshot"
          /\ cmdPc' = "done"
          /\ UNCHANGED localFiles
    /\ UNCHANGED <<snapshotFrame, s3Objects, toUpload, log, pc, err, localSnapshots,
                   s3Snapshots, retentionDecisions, localDeleted, keysToDelete>>

\* SnapshotUpload, a failed upload logged and the command going on
SnapshotUploadGoingOn ==
    /\ cmdPc = "upload"
    /\ IF ~UploadToS3
       THEN /\ cmdPc' = "retention"
            /\ UNCHANGED <<cmdErr, s3Objects, log, pc>>
       ELSE IF s3Client = "nil"
       THEN /\ cmdErr' = "failed to create S3 client"
            /\ cmdPc' = "done"
            /\ UNCHANGED <<s3Objects, log, pc>>
       ELSE /\ \/ /\ s3Objects' = Uploaded(s3Objects, {NewSnapshot}, now)
                   /\ log' = log \cup {UploadedToS3Msg}
                \/ UNCHANGED <<s3Objects, log>>
            /\ cmdPc' = "uploadMissingSnapshots"
            /\ pc' = "uploadMissingSnapshots"
            /\ UNCHANGED cmdErr
    /\ UNCHANGED <<snapshotFrame, localFiles, toUpload, err, localSnapshots, s3Snapshots,
                   retentionDecisions, localDeleted, keysToDelete>>

\* if s.UploadToS3: the client, the upload of the new snapshot, and the call of
\* uploadMissingSnapshots
SnapshotUpload ==
    /\ cmdPc = "upload"
    /\ IF ~UploadToS3
       THEN /\ cmdPc' = "retention"
            /\ UNCHANGED <<cmdErr, s3Objects, log, pc>>
       ELSE IF s3Client = "nil"
       THEN /\ cmdErr' = "failed to create S3 client"
            /\ cmdPc' = "done"
            /\ UNCHANGED <<s3Objects, log, pc>>
       ELSE \/ /\ s3Objects' = Uploaded(s3Objects, {NewSnapshot}, now)
               /\ log' = log \cup {UploadedToS3Msg}
               /\ cmdPc' = "uploadMissingSnapshots"
               /\ pc' = "uploadMissingSnapshots"
               /\ UNCHANGED cmdErr
            \/ /\ cmdErr' = "failed to upload snapshot to S3"
               /\ cmdPc' = "done"
               /\ UNCHANGED <<s3Objects, log, pc>>
    /\ UNCHANGED <<snapshotFrame, localFiles, toUpload, err, localSnapshots, s3Snapshots,
                   retentionDecisions, localDeleted, keysToDelete>>

\* the return of uploadMissingSnapshots: its error is logged as a warning
SnapshotUploadMissingReturn ==
    /\ cmdPc = "uploadMissingSnapshots"
    /\ pc = "returned"
    /\ log' = IF err # "none" THEN log \cup {"Failed to upload missing local snapshots"} ELSE log
    /\ cmdPc' = "removeLocal"
    /\ pc' = "idle"
    /\ err' = "none"
    /\ localSnapshots' = <<>>
    /\ s3Snapshots' = <<>>
    /\ retentionDecisions' = {}
    /\ UNCHANGED <<snapshotFrame, localFiles, s3Objects, toUpload, cmdErr, localDeleted,
                   keysToDelete>>

\* if s.RemoveLocal || ctx.Config.Policy.RemoveLocal: the new snapshot file is
\* removed, or the failure to remove it is logged
SnapshotRemoveLocal ==
    /\ cmdPc = "removeLocal"
    /\ IF RemoveLocal
       THEN \/ /\ localFiles' = Without(localFiles, {NewSnapshot})
               /\ log' = log \cup {RemovedLocalMsg}
            \/ /\ log' = log \cup {"Failed to remove local snapshot"}
               /\ UNCHANGED localFiles
       ELSE UNCHANGED <<localFiles, log>>
    /\ cmdPc' = "retention"
    /\ UNCHANGED <<snapshotFrame, s3Objects, toUpload, cmdErr, pc, err, localSnapshots,
                   s3Snapshots, retentionDecisions, localDeleted, keysToDelete>>

\* if s.ApplyRetention: ApplyUnified when --unified and --upload-to-s3, with the
\* client the upload created; otherwise ApplyLocal first
SnapshotRetention ==
    /\ cmdPc = "retention"
    /\ IF ~ApplyRetention
       THEN /\ cmdPc' = "done"
            /\ UNCHANGED pc
       ELSE IF Unified /\ UploadToS3
       THEN /\ cmdPc' = "snapshot:ApplyUnified"
            /\ pc' = "GetLocalSnapshots"
       ELSE /\ cmdPc' = "snapshot:ApplyLocal"
            /\ pc' = "ApplyLocal:GetLocalSnapshots"
    /\ UNCHANGED <<snapshotFrame, localFiles, s3Objects, toUpload, cmdErr, log, err,
                   localSnapshots, s3Snapshots, retentionDecisions, localDeleted, keysToDelete>>

\* the return of ApplyUnified: its error is logged as a warning
SnapshotUnifiedReturn ==
    /\ cmdPc = "snapshot:ApplyUnified"
    /\ pc = "returned"
    /\ log' = IF err # "none" THEN log \cup {"Failed to apply unified retention policy"} ELSE log
    /\ cmdPc' = "done"
    /\ UNCHANGED <<snapshotFrame, localFiles, s3Objects, toUpload, cmdErr, pc, err,
                   localSnapshots, s3Snapshots, retentionDecisions, localDeleted, keysToDelete>>

\* the return of ApplyLocal: its error is logged as a warning, and ApplyS3 is
\* called if --upload-to-s3
SnapshotLocalReturn ==
    /\ cmdPc = "snapshot:ApplyLocal"
    /\ pc = "returned"
    /\ log' = IF err # "none" THEN log \cup {"Failed to apply local retention policy"} ELSE log
    /\ err' = "none"
    /\ IF UploadToS3
       THEN /\ cmdPc' = "snapshot:ApplyS3"
            /\ pc' = "ApplyS3:GetS3Snapshots"
       ELSE /\ cmdPc' = "done"
            /\ pc' = "idle"
    /\ UNCHANGED <<snapshotFrame, localFiles, s3Objects, toUpload, cmdErr, localSnapshots,
                   s3Snapshots, retentionDecisions, localDeleted, keysToDelete>>

\* the return of ApplyS3: its error is logged as a warning
SnapshotS3Return ==
    /\ cmdPc = "snapshot:ApplyS3"
    /\ pc = "returned"
    /\ log' = IF err # "none" THEN log \cup {"Failed to apply S3 retention policy"} ELSE log
    /\ cmdPc' = "done"
    /\ UNCHANGED <<snapshotFrame, localFiles, s3Objects, toUpload, cmdErr, pc, err,
                   localSnapshots, s3Snapshots, retentionDecisions, localDeleted, keysToDelete>>

SnapshotInit ==
    /\ OtherIdle
    /\ policy \in CmdPolicies
    /\ now = Now0
    /\ EvalIdle
    /\ ResolveIdle
    /\ Local = FALSE
    /\ Remote = FALSE
    /\ Unified \in BOOLEAN
    /\ UploadToS3 \in BOOLEAN
    /\ RemoveLocal \in BOOLEAN
    /\ ApplyRetention \in BOOLEAN
    /\ listFails \in ListFailures
    /\ cmdPc = "Run"
    /\ cmdErr = "none"
    /\ toUpload = <<>>
    /\ log = {}
    /\ listed = <<>>
    /\ run = 1
    /\ prevRun = NoRun
    /\ localFiles \in EarlierStores
    /\ s3Objects \in Stores
    /\ dryRun = FALSE
    /\ s3Client \in {"nil", "client"}
    /\ pc = "idle"
    /\ localSnapshots = <<>>
    /\ s3Snapshots = <<>>
    /\ unifiedSnapshots = <<>>
    /\ retentionDecisions = {}
    /\ localDeleted = <<>>
    /\ keysToDelete = <<>>
    /\ err = "none"

SnapshotNext ==
    \/ SnapshotTake
    \/ SnapshotUpload
    \/ uploadMissingSnapshots
    \/ SnapshotUploadMissingReturn
    \/ SnapshotRemoveLocal
    \/ SnapshotRetention
    \/ ApplyUnified
    \/ SnapshotUnifiedReturn
    \/ ApplyLocal
    \/ SnapshotLocalReturn
    \/ ApplyS3
    \/ SnapshotS3Return

SpecSnapshot == SnapshotInit /\ [][SnapshotNext]_vars

---------------------------------------------------------------------------
(* The restore command: RestoreCmd.Run and RestoreCmd.downloadSnapshot *)

\* most paths, and most keys, of one run that are anything but missing
MaxPresent == 2

S3Scheme == <<"s", "3", ":", "/", "/">>

\* strings.HasPrefix
HasPrefix(str, prefix) ==
    /\ Len(prefix) <= Len(str)
    /\ SubSeq(str, 1, Len(prefix)) = prefix

\* s[n:], the string without its first n bytes
From(str, n) == SubSeq(str, n + 1, Len(str))

\* strings.Index(str, "/"): the index of the first slash, counted from 0, or -1
IndexSlash(str) ==
    IF \E i \in 1..Len(str) : str[i] = "/"
    THEN (CHOOSE i \in 1..Len(str) : str[i] = "/" /\ \A j \in 1..(i - 1) : str[j] # "/") - 1
    ELSE -1

\* filepath.Base: the last element of the path, trailing slashes removed first
RECURSIVE Base(_)
Base(path) ==
    IF path = <<>> THEN <<".">>
    ELSE IF path[Len(path)] = "/"
    THEN IF Len(path) = 1 THEN <<"/">> ELSE Base(SubSeq(path, 1, Len(path) - 1))
    ELSE IF \E i \in 1..Len(path) : path[i] = "/"
    THEN LET last == CHOOSE i \in 1..Len(path) :
                         path[i] = "/" /\ \A j \in (i + 1)..Len(path) : path[j] # "/"
         IN From(path, last)
    ELSE path

\* the key RestoreCmd.downloadFromS3URL hands to downloadSnapshot
downloadFromS3URL(s3URL) ==
    LET s3Key == From(s3URL, 5)
        idx == IndexSlash(s3Key)
    IN IF idx > 0 THEN From(s3Key, idx + 1) ELSE s3Key

\* the key RestoreCmd.downloadFromS3Key hands to downloadSnapshot
downloadFromS3Key(source) == Base(source)

\* the key downloadSnapshot is called with for a source
S3KeyOf(source) ==
    IF HasPrefix(source, S3Scheme) THEN downloadFromS3URL(source) ELSE downloadFromS3Key(source)

\* the sources the command is given
Sources ==
    LET S == <<"s">>
        paths == {S \o Db, S \o Db \o Zst, S, <<"d", "/">> \o S \o Db \o Gz}
    IN paths \cup {S3Scheme \o <<"b", "/">> \o n : n \in paths}
             \cup {S3Scheme \o S \o Db, S3Scheme \o <<"/">> \o S}

\* the local paths a run with the source may read or write, the snapshot
\* directory being the working directory
LocalPaths(source) ==
    (IF HasPrefix(source, S3Scheme) THEN {} ELSE Range(ResolveCompressedFilename(source)))
        \cup {Base(k) : k \in Range(ResolveCompressedFilename(S3KeyOf(source)))}

\* the keys a run with the source may probe
S3Keys(source) == Range(ResolveCompressedFilename(S3KeyOf(source)))

\* the answers of a store in which at most MaxPresent names are not missing
Answers(names, answers, missing) ==
    {f \in [names -> answers] : Cardinality({n \in names : f[n] # missing}) <= MaxPresent}

\* f with the value at x replaced
Put(f, x, v) == [y \in DOMAIN f |-> IF y = x THEN v ELSE f[y]]

\* os.Remove(path) on what is at the path: a file is removed, a directory is
\* removed only if it is empty
Removed(answer) == IF answer = "dir" THEN {"dir", "absent"} ELSE {"absent"}

\* what RestoreCmd.Run itself neither reads nor writes
restoreFrame ==
    <<policy, now, exceptRestore, evalVars, unifiedVars, cmdVars, Compression, Source, s3Stat>>

\* Run up to the choice of the source: an s3:// URL goes to downloadSnapshot,
\* anything else to compression.ResolveCompressedFile
RestoreRun ==
    /\ restorePc = "Run"
    /\ IF HasPrefix(Source, S3Scheme)
       THEN /\ restorePc' = "downloadSnapshot"
            /\ UNCHANGED <<resolver, filename, stat, resPc>>
       ELSE /\ restorePc' = "ResolveCompressedFile"
            /\ resolver' = "local"
            /\ filename' = Source
            /\ stat' = [c \in Range(ResolveCompressedFilename(Source)) |-> localStat[c]]
            /\ resPc' = "call"
    /\ UNCHANGED <<restoreFrame, candidates, probed, resolved, localStat, snapshotPath,
                   restoreErr, s3Ops>>

\* the return of ResolveCompressedFile: the file found is used, or the
\* command goes to S3 with the base name of the source
RestoreLocalReturn ==
    /\ restorePc = "ResolveCompressedFile"
    /\ resPc = "returned"
    /\ IF resolved.found
       THEN /\ snapshotPath' = resolved.name
            /\ restorePc' = "restore"
       ELSE /\ restorePc' = "downloadSnapshot"
            /\ UNCHANGED snapshotPath
    /\ UNCHANGED <<restoreFrame, resolver, filename, stat, resPc, candidates, probed, resolved,
                   localStat, restoreErr, s3Ops>>

\* downloadSnapshot: the client, then the call of Client.ResolveCompressedKey
DownloadGetS3Client ==
    /\ restorePc = "downloadSnapshot"
    /\ IF s3Client = "nil"
       THEN /\ restoreErr' = "failed to create S3 client"
            /\ restorePc' = "done"
            /\ UNCHANGED <<resolver, filename, stat, resPc, candidates, probed, resolved>>
       ELSE /\ restorePc' = "ResolveCompressedKey"
            /\ resolver' = "s3"
            /\ filename' = S3KeyOf(Source)
            /\ stat' = s3Stat
            /\ resPc' = "call"
            /\ candidates' = <<>>
            /\ probed' = <<>>
            /\ resolved' = <<>>
            /\ UNCHANGED restoreErr
    /\ UNCHANGED <<restoreFrame, localStat, snapshotPath, s3Ops>>

\* downloadSnapshot: the return of ResolveCompressedKey
DownloadResolved ==
    /\ restorePc = "ResolveCompressedKey"
    /\ resPc = "returned"
    /\ IF resolved.err
       THEN /\ restoreErr' = "failed to resolve compressed snapshot"
            /\ restorePc' = "done"
            /\ UNCHANGED snapshotPath
       ELSE IF ~resolved.found
       THEN /\ restoreErr' = "snapshot not found in S3"
            /\ restorePc' = "done"
            /\ UNCHANGED snapshotPath
       ELSE /\ snapshotPath' = Base(resolved.name)
            /\ restorePc' = "Download"
            /\ UNCHANGED restoreErr
    /\ UNCHANGED <<restoreFrame, resolver, filename, stat, resPc, candidates, probed, resolved,
                   localStat, s3Ops>>

\* downloadSnapshot: Client.Download and the removal after its failure.
\* Download fails before it creates the file, or it creates the file and Get
\* fails, or Get succeeds
DownloadDownload ==
    /\ restorePc = "Download"
    /\ \/ /\ \E after \in Removed(localStat[snapshotPath]) :
                 localStat' = Put(localStat, snapshotPath, after)
          /\ restoreErr' = "failed to download snapshot from S3"
          /\ restorePc' = "done"
          /\ snapshotPath' = <<>>
          /\ UNCHANGED s3Ops
       \/ /\ localStat[snapshotPath] # "dir"
          /\ localStat' = Put(localStat, snapshotPath, "absent")
          /\ s3Ops' = s3Ops \cup {resolved.name}
          /\ restoreErr' = "failed to download snapshot from S3"
          /\ restorePc' = "done"
          /\ snapshotPath' = <<>>
       \/ /\ localStat[snapshotPath] # "dir"
          /\ \E written \in {"file", "empty", "absent"} :
                 localStat' = Put(localStat, snapshotPath, written)
          /\ s3Ops' = s3Ops \cup {resolved.name}
          /\ restorePc' = "verify"
          /\ UNCHANGED <<restoreErr, snapshotPath>>
    /\ UNCHANGED <<restoreFrame, resolver, filename, stat, resPc, candidates, probed, resolved>>

\* DownloadVerify, an empty or missing file left as it is
DownloadVerifyLeaving ==
    /\ restorePc = "verify"
    /\ IF localStat[snapshotPath] # "file"
       THEN /\ restoreErr' = "downloaded snapshot file is empty or invalid"
            /\ restorePc' = "done"
            /\ snapshotPath' = <<>>
       ELSE /\ restorePc' = "restore"
            /\ UNCHANGED <<restoreErr, snapshotPath>>
    /\ UNCHANGED <<restoreFrame, resolver, filename, stat, resPc, candidates, probed, resolved,
                   localStat, s3Ops>>

\* downloadSnapshot: the downloaded file is checked for content, and removed
\* if it has none
DownloadVerify ==
    /\ restorePc = "verify"
    /\ IF localStat[snapshotPath] # "file"
       THEN /\ localStat' = Put(localStat, snapshotPath, "absent")
            /\ restoreErr' = "downloaded snapshot file is empty or invalid"
            /\ restorePc' = "done"
            /\ snapshotPath' = <<>>
       ELSE /\ restorePc' = "restore"
            /\ UNCHANGED <<localStat, restoreErr, snapshotPath>>
    /\ UNCHANGED <<restoreFrame, resolver, filename, stat, resPc, candidates, probed, resolved,
                   s3Ops>>

\* Run from the decompression on: the snapshot is decompressed if its name is
\* that of a compressed file, and restored
RestoreSnapshot ==
    /\ restorePc = "restore"
    /\ \/ restoreErr' = "none"
       \/ IsCompressed(snapshotPath) /\ restoreErr' = "failed to decompress snapshot"
       \/ restoreErr' = "failed to restore etcd"
    /\ restorePc' = "done"
    /\ UNCHANGED <<restoreFrame, resolver, filename, stat, resPc, candidates, probed, resolved,
                   localStat, snapshotPath, s3Ops>>

RestoreInit ==
    /\ GetIdle
    /\ CompressIdle
    /\ S3KeysIdle
    /\ EtcdIdle
    /\ policy = NoPolicy
    /\ now = Now0
    /\ EvalIdle
    /\ CmdIdle
    /\ ResolveIdle
    /\ localFiles = <<>>
    /\ s3Objects = <<>>
    /\ dryRun = FALSE
    /\ s3Client \in {"nil", "client"}
    /\ pc = "idle"
    /\ localSnapshots = <<>>
    /\ s3Snapshots = <<>>
    /\ unifiedSnapshots = <<>>
    /\ retentionDecisions = {}
    /\ localDeleted = <<>>
    /\ keysToDelete = <<>>
    /\ err = "none"
    /\ Source \in Sources
    /\ localStat \in Answers(LocalPaths(Source), LocalAnswers, "absent")
    /\ s3Stat \in Answers(S3Keys(Source), S3Answers, "not found")
    /\ restorePc = "Run"
    /\ snapshotPath = <<>>
    /\ restoreErr = "none"
    /\ s3Ops = {}

RestoreNext ==
    \/ RestoreRun
    \/ ResolveCandidates
    \/ ProbeLocal
    \/ RestoreLocalReturn
    \/ DownloadGetS3Client
    \/ ProbeS3
    \/ DownloadResolved
    \/ DownloadDownload
    \/ DownloadVerify
    \/ RestoreSnapshot

SpecRestore == RestoreInit /\ [][RestoreNext]_vars

---------------------------------------------------------------------------
(* The etcd client: etcd.NewClient *)

\* what a CA file may be: not given, a PEM certificate, a path that cannot be
\* read, a file that holds no certificate
CaFiles == {"", "ca.crt", "unreadable", "malformed"}
\* what a certificate file and a key file may be: not given, one of a matching
\* pair, or a file from which no pair loads
CertFiles == {"", "client.crt", "bad.crt"}
KeyFiles == {"", "client.key", "bad.key"}

EtcdConfigs ==
    [Username : {"", "user"}, CaFile : CaFiles, CertFile : CertFiles, KeyFile : KeyFiles]

\* tls.LoadX509KeyPair succeeds
LoadX509KeyPair(certFile, keyFile) == certFile = "client.crt" /\ keyFile = "client.key"

\* os.ReadFile(cfg.CaFile) succeeds
ReadFile(caFile) == caFile # "unreadable"

\* caCertPool.AppendCertsFromPEM(caCert) returns true
AppendCertsFromPEM(caFile) == caFile = "ca.crt"

\* &tls.Config{}
EmptyTLS == [Certificates |-> <<>>, RootCAs |-> "nil", InsecureSkipVerify |-> FALSE]

\* WantsTLS with the operators grouped the other way
WantsTLSCertAndEither(c) == c.CertFile # "" /\ (c.KeyFile # "" \/ c.CaFile # "")

\* the condition under which NewClient sets TLS up
WantsTLS(c) == (c.CertFile # "" /\ c.KeyFile # "") \/ c.CaFile # ""

\* what NewClient neither reads nor writes
newClientFrame ==
    <<policy, now, exceptEtcd, evalVars, unifiedVars, resolveVars, cmdVars, cfg>>

\* NewClient up to the test for TLS
NewClientConfig ==
    /\ newClientPc = "NewClient"
    /\ clientConfig' = [Username |-> cfg.Username, TLS |-> NilTLS]
    /\ IF WantsTLS(cfg)
       THEN /\ tlsConfig' = EmptyTLS
            /\ newClientPc' = "certificate"
       ELSE /\ tlsConfig' = tlsConfig
            /\ newClientPc' = "clientv3.New"
    /\ UNCHANGED <<newClientFrame, etcdClient, etcdErr>>

\* the client certificate is loaded if both cert and key files are given
NewClientCertificate ==
    /\ newClientPc = "certificate"
    /\ IF cfg.CertFile # "" /\ cfg.KeyFile # ""
       THEN IF LoadX509KeyPair(cfg.CertFile, cfg.KeyFile)
            THEN /\ tlsConfig' = [tlsConfig EXCEPT !.Certificates = <<"cert">>]
                 /\ newClientPc' = "ca"
                 /\ UNCHANGED etcdErr
            ELSE /\ etcdErr' = "failed to load client certificate"
                 /\ newClientPc' = "returned"
                 /\ UNCHANGED tlsConfig
       ELSE /\ newClientPc' = "ca"
            /\ UNCHANGED <<tlsConfig, etcdErr>>
    /\ UNCHANGED <<newClientFrame, clientConfig, etcdClient>>

\* the CA certificate is loaded if a CA file is given, verification is skipped
\* if none is
NewClientCA ==
    /\ newClientPc = "ca"
    /\ IF cfg.CaFile # ""
       THEN IF ~ReadFile(cfg.CaFile)
            THEN /\ etcdErr' = "failed to read CA certificate file"
                 /\ newClientPc' = "returned"
                 /\ UNCHANGED <<tlsConfig, clientConfig>>
            ELSE IF ~AppendCertsFromPEM(cfg.CaFile)
            THEN /\ etcdErr' = "failed to parse CA certificate"
                 /\ newClientPc' = "returned"
                 /\ UNCHANGED <<tlsConfig, clientConfig>>
            ELSE /\ tlsConfig' = [tlsConfig EXCEPT !.RootCAs = "caCertPool",
                                                   !.InsecureSkipVerify = FALSE]
                 /\ clientConfig' = [clientConfig EXCEPT !.TLS = tlsConfig']
                 /\ newClientPc' = "clientv3.New"
                 /\ UNCHANGED etcdErr
       ELSE /\ tlsConfig' = [tlsConfig EXCEPT !.InsecureSkipVerify = TRUE]
            /\ clientConfig' = [clientConfig EXCEPT !.TLS = tlsConfig']
            /\ newClientPc' = "clientv3.New"
            /\ UNCHANGED etcdErr
    /\ UNCHANGED <<newClientFrame, etcdClient>>

\* clientv3.New(clientConfig)
NewClientNew ==
    /\ newClientPc = "clientv3.New"
    /\ \/ /\ newClientPc' = "Status"
          /\ UNCHANGED etcdErr
       \/ /\ etcdErr' = "failed to create etcd client"
          /\ newClientPc' = "returned"
    /\ UNCHANGED <<newClientFrame, clientConfig, tlsConfig, etcdClient>>

\* the connection test, and the return of the client
NewClientStatus ==
    /\ newClientPc = "Status"
    /\ \/ /\ etcdClient' = "client"
          /\ UNCHANGED etcdErr
       \/ /\ etcdErr' = "failed to connect to etcd"
          /\ UNCHANGED etcdClient
    /\ newClientPc' = "returned"
    /\ UNCHANGED <<newClientFrame, clientConfig, tlsConfig>>

NewClientInit ==
    /\ GetIdle
    /\ CompressIdle
    /\ S3KeysIdle
    /\ policy = NoPolicy
    /\ now = Now0
    /\ EvalIdle
    /\ UnifiedIdle
    /\ ResolveIdle
    /\ CmdIdle
    /\ RestoreIdle
    /\ cfg \in EtcdConfigs
    /\ clientConfig = <<>>
    /\ tlsConfig = NilTLS
    /\ newClientPc = "NewClient"
    /\ etcdClient = "nil"
    /\ etcdErr = "none"

NewClient ==
    \/ NewClientConfig
    \/ NewClientCertificate
    \/ NewClientCA
    \/ NewClientNew
    \/ NewClientStatus

SpecNewClient == NewClientInit /\ [][NewClient]_vars

---------------------------------------------------------------------------
(* The S3 client's keys: Client.buildKey, Upload, List, Delete *)

\* most objects of a bucket
MaxObjects == 2

\* the configured prefixes: none, one segment, nested, and written with a
\* trailing slash
Prefixes == {<<>>, <<"p">>, <<"p", "/", "q">>, <<"p", "/">>}

\* the keys the commands store snapshots under
Keys == {<<"a">>, <<"b">>, <<"p">>}

\* filepath.Clean of a path without dot elements: runs of slashes are one
\* slash, and a trailing slash is dropped
RECURSIVE Clean(_)
Clean(path) ==
    IF path = <<>> THEN <<".">>
    ELSE IF \E i \in 1..(Len(path) - 1) : path[i] = "/" /\ path[i + 1] = "/"
    THEN LET i == CHOOSE i \in 1..(Len(path) - 1) : path[i] = "/" /\ path[i + 1] = "/"
         IN Clean(SubSeq(path, 1, i) \o SubSeq(path, i + 2, Len(path)))
    ELSE IF Len(path) > 1 /\ path[Len(path)] = "/"
    THEN SubSeq(path, 1, Len(path) - 1)
    ELSE path

\* filepath.Join of two elements: empty elements are ignored, the rest joined
\* by a slash and cleaned
Join(a, b) ==
    IF a = <<>> /\ b = <<>> THEN <<>>
    ELSE IF a = <<>> THEN Clean(b)
    ELSE IF b = <<>> THEN Clean(a)
    ELSE Clean(a \o <<"/">> \o b)

\* Client.buildKey
buildKey(key) == IF s3Prefix = <<>> THEN key ELSE Join(s3Prefix, key)

\* the key Client.List puts in an Object for the object at the full key
ListedKey(full) ==
    IF s3Prefix # <<>> /\ HasPrefix(full, s3Prefix \o <<"/">>)
    THEN From(full, Len(s3Prefix) + 1)
    ELSE IF s3Prefix # <<>> /\ full = s3Prefix THEN <<>>
    ELSE full

\* whether s comes before t in the order S3 lists keys in
RECURSIVE KeyBefore(_, _)
KeyBefore(s, t) ==
    IF s = <<>> THEN t # <<>>
    ELSE IF t = <<>> THEN FALSE
    ELSE IF s[1] = t[1] THEN KeyBefore(Tail(s), Tail(t))
    ELSE LET rank == [c \in {"/", "a", "b", "p", "q", "."} |->
                         CASE c = "." -> 1 [] c = "/" -> 2 [] c = "a" -> 3
                           [] c = "b" -> 4 [] c = "p" -> 5 [] c = "q" -> 6]
         IN rank[s[1]] < rank[t[1]]

\* the keys of a set in listing order
RECURSIVE InKeyOrder(_)
InKeyOrder(keys) ==
    IF keys = {} THEN <<>>
    ELSE LET first == CHOOSE k \in keys : \A l \in keys \ {k} : KeyBefore(k, l)
         IN <<first>> \o InKeyOrder(keys \ {first})

\* what the calls on the s3.Client neither read nor write
s3KeyFrame ==
    <<policy, now, exceptS3Keys, evalVars, unifiedVars, resolveVars, cmdVars, s3Prefix>>

\* Client.Upload(filePath, key)
S3Upload ==
    /\ Cardinality(bucketKeys) < MaxObjects
    /\ \E key \in Keys :
          /\ uploaded' = uploaded \cup {key}
          /\ bucketKeys' = bucketKeys \cup {buildKey(key)}
    /\ UNCHANGED <<s3KeyFrame, s3Listed, deleted>>

\* Client.List(ctx, ""): the objects whose full key begins with buildKey("")
S3List ==
    /\ LET fullPrefix == buildKey(<<>>)
           matched == InKeyOrder({full \in bucketKeys : HasPrefix(full, fullPrefix)})
       IN s3Listed' = [i \in 1..Len(matched) |->
                         [Key |-> ListedKey(matched[i]), Full |-> matched[i]]]
    /\ UNCHANGED <<s3KeyFrame, bucketKeys, uploaded, deleted>>

\* Client.Delete(ctx, key) with the key of a listed Object
S3Delete ==
    /\ \E i \in 1..Len(s3Listed) :
          /\ deleted' = deleted \cup {[Listed |-> s3Listed[i].Full,
                                         Target |-> buildKey(s3Listed[i].Key)]}
          /\ bucketKeys' = bucketKeys \ {buildKey(s3Listed[i].Key)}
    /\ UNCHANGED <<s3KeyFrame, uploaded, s3Listed>>

S3KeysInit ==
    /\ GetIdle
    /\ CompressIdle
    /\ policy = NoPolicy
    /\ now = Now0
    /\ EvalIdle
    /\ UnifiedIdle
    /\ ResolveIdle
    /\ CmdIdle
    /\ RestoreIdle
    /\ EtcdIdle
    /\ s3Prefix \in Prefixes
    /\ bucketKeys = {}
    /\ uploaded = {}
    /\ s3Listed = <<>>
    /\ deleted = {}

S3KeysNext == S3Upload \/ S3List \/ S3Delete

SpecS3Keys == S3KeysInit /\ [][S3KeysNext]_vars

---------------------------------------------------------------------------
(* Properties of the evaluation of one collection, under SpecEval *)

NamesOf(snaps) == {snaps[i].Name : i \in 1..Len(snaps)}

UniqueNames(snaps) == \A i, j \in 1..Len(snaps) : snaps[i].Name = snaps[j].Name => i = j

DistinctTimes(snaps) ==
    \A i, j \in 1..Len(snaps) : snaps[i].ModTime = snaps[j].ModTime => i = j

\* every rule of p is switched off
AllDisabled(p) ==
    /\ p.KeepLast <= 0
    /\ p.KeepLastHours <= 0
    /\ p.KeepLastDays <= 0
    /\ p.KeepLastWeeks <= 0
    /\ p.KeepLastMonths <= 0
    /\ p.KeepLastYears <= 0

\* the windows of p as <<count, hours in the unit>>
Windows(p) ==
    {<<p.KeepLastHours, 1>>, <<p.KeepLastDays, 24>>, <<p.KeepLastWeeks, 7 * 24>>,
     <<p.KeepLastMonths, 30 * 24>>, <<p.KeepLastYears, 365 * 24>>}

\* age lies within an enabled window of p, bound included
WithinWindow(age, p) == \E w \in Windows(p) : w[1] > 0 /\ age <= w[1] * w[2]

\* C1: under a policy whose keep-last count and five windows are all zero or
\* negative no name is kept, whatever the records, and every listed snapshot is
\* selected for deletion.
C1_AllDisabledPurgesAll ==
    (evalPc = "done" /\ AllDisabled(policy)) =>
        /\ toKeep = {}
        /\ findSnapshotsToDelete(snapshots, toKeep) = snapshots

C1_Witness ==
    /\ evalPc = "done"
    /\ AllDisabled(policy)
    /\ policy.KeepLast < 0
    /\ policy.KeepLastDays < 0
    /\ policy.KeepLastYears = 0
    /\ Len(evalInput) = MaxLen
    /\ \E i \in 1..Len(evalInput) : now - evalInput[i].ModTime = 0

\* C2: for records with unique names, a record is kept iff it is among the
\* first KeepLast records of the newest-first order (KeepLast > 0) or its age is
\* at most the duration of an enabled window; the newest-first order is the
\* input reordered by ModTime descending; with only KeepLast = k enabled over n
\* records of distinct timestamps exactly the min(k, n) newest are kept.
C2_KeepIffCountOrWindow ==
    (evalPc = "done" /\ UniqueNames(evalInput)) =>
        /\ Len(snapshots) = Len(evalInput)
        /\ Range(snapshots) = Range(evalInput)
        /\ \A i, j \in 1..Len(snapshots) :
               i < j => snapshots[i].ModTime >= snapshots[j].ModTime
        /\ \A i \in 1..Len(snapshots) :
               snapshots[i].Name \in toKeep <=>
                   \/ policy.KeepLast > 0 /\ i <= policy.KeepLast
                   \/ WithinWindow(now - snapshots[i].ModTime, policy)
        /\ toKeep \subseteq NamesOf(evalInput)
        /\ \A i \in 1..Len(evalInput) :
               (now - evalInput[i].ModTime = 1 /\ \E w \in Windows(policy) : w[1] >= 1)
                   => evalInput[i].Name \in toKeep
        /\ (~(\E w \in Windows(policy) : w[1] > 0) /\ policy.KeepLast >= 0
               /\ DistinctTimes(evalInput)) =>
               /\ Cardinality(toKeep) = Min(policy.KeepLast, Len(evalInput))
               /\ \A i, j \in 1..Len(evalInput) :
                      (evalInput[i].Name \in toKeep /\ evalInput[j].Name \notin toKeep)
                          => evalInput[i].ModTime > evalInput[j].ModTime

\* beyond the keep-last count, a record kept by the day window alone, at the
\* window's bound, in a slice the call had to reorder
C2_Witness ==
    /\ evalPc = "done"
    /\ UniqueNames(evalInput)
    /\ Len(evalInput) = 2
    /\ policy.KeepLast = 1
    /\ policy.KeepLastDays = 1
    /\ policy.KeepLastHours = 1
    /\ policy.KeepLastWeeks = 0 /\ policy.KeepLastMonths = 0 /\ policy.KeepLastYears = 0
    /\ now - snapshots[1].ModTime = 0
    /\ now - snapshots[2].ModTime = 24
    /\ snapshots[2].Name \in toKeep
    /\ evalInput # snapshots

\* C8: every name kept with KeepLast = k is kept with KeepLast = k + 1, the
\* records, the windows and the instant being the same.
C8_CountMonotone ==
    evalPc = "done" =>
        toKeep \subseteq
            determineSnapshotsToKeep(evalInput, [policy EXCEPT !.KeepLast = @ + 1], now)

\* the larger count keeps strictly more
C8_Witness ==
    /\ evalPc = "done"
    /\ policy.KeepLast = 1
    /\ Len(evalInput) = MaxLen
    /\ toKeep # {}
    /\ toKeep # determineSnapshotsToKeep(evalInput, [policy EXCEPT !.KeepLast = @ + 1], now)

---------------------------------------------------------------------------
(* Properties of the evaluation with zero timestamps and wide windows, under *)
(* SpecWide *)

\* the positions of the records whose timestamp is the zero time
ZeroAt(s) == {i \in 1..Len(s) : s[i].ModTime = ZeroTime}

\* a window of the policy is enabled
WindowEnabled ==
    \/ policy.KeepLastHours > 0 \/ policy.KeepLastDays > 0 \/ policy.KeepLastWeeks > 0
    \/ policy.KeepLastMonths > 0 \/ policy.KeepLastYears > 0

\* C24: the evaluation always returns a verdict; a record with the zero time
\* for a timestamp is kept by no enabled window, whatever its size, and the
\* sort for the count rule puts it after every record with a valid timestamp.
C24_ZeroTimeIsOldest ==
    evalPc = "done" =>
        /\ toKeep \subseteq {evalInput[i].Name : i \in 1..Len(evalInput)}
        /\ \A i \in ZeroAt(snapshots) :
               /\ ~KeptByWindow(snapshots[i], policy, now)
               /\ \A j \in 1..Len(snapshots) : j \notin ZeroAt(snapshots) => j < i
        /\ \A n \in toKeep :
               \/ n \in KeepLastNames(snapshots, policy)
               \/ \E i \in 1..Len(snapshots) :
                      snapshots[i].Name = n /\ snapshots[i].ModTime # ZeroTime

\* a record with the zero time came first in the input and is deleted under
\* the widest window of years, a record of a year ago being kept
C24_Witness ==
    /\ evalPc = "done"
    /\ policy.KeepLastYears = LargestYears
    /\ policy.KeepLast = 0
    /\ Len(evalInput) = 2
    /\ evalInput[1].ModTime = ZeroTime
    /\ evalInput[2].ModTime = Now0 - 8760
    /\ evalInput[1].Name # evalInput[2].Name
    /\ toKeep = {evalInput[2].Name}
    /\ snapshots[2] = evalInput[1]

\* the policy with one more unit in each of its enabled windows, one at a time
WiderPolicies ==
    {[policy EXCEPT !.KeepLastHours = @ + 1], [policy EXCEPT !.KeepLastDays = @ + 1],
     [policy EXCEPT !.KeepLastWeeks = @ + 1], [policy EXCEPT !.KeepLastMonths = @ + 1],
     [policy EXCEPT !.KeepLastYears = @ + 1]}

\* C25: for the same records and instant, a larger keep-within count keeps
\* every name the smaller count keeps, for every count the configuration
\* accepts, also where the window exceeds the range of the 64-bit Duration.
C25_WindowMonotone ==
    evalPc = "done" =>
        \A wider \in WiderPolicies :
            toKeep \subseteq determineSnapshotsToKeep(evalInput, wider, now)

---------------------------------------------------------------------------
(* Properties of unified retention, under Spec *)

\* ApplyUnified has computed its decisions
Decided ==
    pc \in {"applyRetentionToLocal", "applyRetentionToS3", "returned"} /\ err = "none"

\* ApplyUnified has returned nil
Applied == pc = "returned" /\ err = "none"

\* the ModTimes of the listed copies of name n
CopyTimes(n) ==
    {localSnapshots[i].ModTime : i \in {i \in 1..Len(localSnapshots) : localSnapshots[i].Name = n}}
      \cup {s3Snapshots[i].ModTime : i \in {i \in 1..Len(s3Snapshots) : s3Snapshots[i].Name = n}}

Newest(times) == CHOOSE t \in times : \A x \in times : x <= t

\* the record of name n in a listing
Copy(listing, n) == CHOOSE r \in Range(listing) : r.Name = n

\* C3: one verdict is applied to both listings: a copy is selected for deletion
\* iff its name is in that store's listing and the verdict does not keep the name;
\* so of a name listed in both stores both copies are selected or neither; and
\* nothing but a selected copy leaves a store.
C3_OneVerdictBothStores ==
    Applied =>
        /\ Range(localDeleted) = NamesOf(localSnapshots) \ retentionDecisions
        /\ (s3Client # "nil") => Range(keysToDelete) = NamesOf(s3Snapshots) \ retentionDecisions
        /\ (s3Client # "nil") =>
               \A n \in NamesOf(localSnapshots) \cap NamesOf(s3Snapshots) :
                   n \in Range(localDeleted) <=> n \in Range(keysToDelete)
        /\ NamesOf(localSnapshots) \ DOMAIN localFiles \subseteq Range(localDeleted)
        /\ (s3Client # "nil") => NamesOf(s3Snapshots) \ DOMAIN s3Objects \subseteq Range(keysToDelete)

\* one name in both stores with both copies deleted, another with both kept
C3_Witness ==
    /\ Applied
    /\ ~dryRun
    /\ NamesOf(localSnapshots) = StoreNames
    /\ NamesOf(s3Snapshots) = StoreNames
    /\ Cardinality(retentionDecisions) = 1
    /\ Len(localDeleted) = 1
    /\ localDeleted = keysToDelete
    /\ DOMAIN localFiles = retentionDecisions
    /\ DOMAIN s3Objects = retentionDecisions

\* C4: when the newest listed copy of a name lies within an enabled window, no
\* copy of the name is selected or deleted in either store, also a copy whose
\* own ModTime is older than every enabled window.
C4_RecentCopyProtectsBoth ==
    Applied =>
        \A n \in NamesOf(localSnapshots) \cup NamesOf(s3Snapshots) :
            WithinWindow(now - Newest(CopyTimes(n)), policy) =>
                /\ n \notin Range(localDeleted)
                /\ n \notin Range(keysToDelete)
                /\ n \in NamesOf(localSnapshots) => n \in DOMAIN localFiles
                /\ n \in NamesOf(s3Snapshots) => n \in DOMAIN s3Objects

\* a stale local copy survives a real run because the S3 copy is recent, while
\* the other snapshot is deleted
C4_Witness ==
    /\ Applied
    /\ ~dryRun
    /\ policy.KeepLast = 0
    /\ \E n \in NamesOf(localSnapshots) \cap NamesOf(s3Snapshots) :
          /\ ~WithinWindow(now - Copy(localSnapshots, n).ModTime, policy)
          /\ WithinWindow(now - Copy(s3Snapshots, n).ModTime, policy)
          /\ n \in DOMAIN localFiles
          /\ n \in DOMAIN s3Objects
    /\ Len(localDeleted) = 1
    /\ Cardinality(DOMAIN localFiles) = 1

\* C5: the merged collection holds exactly one record for each name of either
\* listing, taken from a listing; for a name in both it is the S3 record iff
\* that one's ModTime is strictly later, so on equal timestamps the local one.
C5_MergeByName ==
    Decided =>
        /\ NamesOf(unifiedSnapshots) = NamesOf(localSnapshots) \cup NamesOf(s3Snapshots)
        /\ UniqueNames(unifiedSnapshots)
        /\ Range(unifiedSnapshots) \subseteq Range(localSnapshots) \cup Range(s3Snapshots)
        /\ \A i \in 1..Len(unifiedSnapshots) :
               LET u == unifiedSnapshots[i]
               IN u.Name \in NamesOf(localSnapshots) \cap NamesOf(s3Snapshots) =>
                      /\ u.IsRemote <=>
                             Copy(s3Snapshots, u.Name).ModTime > Copy(localSnapshots, u.Name).ModTime
                      /\ u = IF u.IsRemote THEN Copy(s3Snapshots, u.Name)
                                           ELSE Copy(localSnapshots, u.Name)

\* one name merged from S3 (later there), one merged from local on a tie
C5_Witness ==
    /\ Decided
    /\ NamesOf(localSnapshots) = StoreNames
    /\ NamesOf(s3Snapshots) = StoreNames
    /\ \E i, j \in 1..Len(unifiedSnapshots) :
          /\ unifiedSnapshots[i].IsRemote
          /\ ~unifiedSnapshots[j].IsRemote
          /\ Copy(s3Snapshots, unifiedSnapshots[j].Name).ModTime
                 = Copy(localSnapshots, unifiedSnapshots[j].Name).ModTime

\* C6: when the records of the two listings have pairwise distinct timestamps,
\* GetUnifiedRetentionStatus with the listings exchanged returns the verdict it
\* returned for them as given.
C6_ReconcileSymmetric ==
    (Decided /\ DistinctTimes(localSnapshots \o s3Snapshots)) =>
        GetUnifiedRetentionStatus(s3Snapshots, localSnapshots, policy, now)
            = {retentionDecisions}

\* three records, one name in both stores, the keep-last rule deciding
C6_Witness ==
    /\ Decided
    /\ DistinctTimes(localSnapshots \o s3Snapshots)
    /\ Len(localSnapshots \o s3Snapshots) = 3
    /\ Len(unifiedSnapshots) = 2
    /\ policy.KeepLast = 1
    /\ ~(\E w \in Windows(policy) : w[1] > 0)
    /\ Cardinality(retentionDecisions) = 1
    /\ \E n \in NamesOf(localSnapshots) \cap NamesOf(s3Snapshots) :
          Copy(localSnapshots, n).ModTime > Copy(s3Snapshots, n).ModTime

\* C7: for the same listings, policy and instant GetUnifiedRetentionStatus
\* returns the same verdict on every run: the verdict it returned is the only
\* one it can return.
C7_ReconcileDeterministic ==
    Decided =>
        GetUnifiedRetentionStatus(localSnapshots, s3Snapshots, policy, now)
            = {retentionDecisions}

\* C14: when a listing fails, ApplyUnified returns the error at once, having
\* selected nothing, and the step that fails deletes nothing; files and objects
\* leave the stores only in the two apply steps of a call that has listed both
\* stores without error.
C14_ListingFailureDeletesNothing ==
    /\ [](err # "none" => (pc = "returned" /\ localDeleted = <<>> /\ keysToDelete = <<>>))
    /\ [][err' # "none" => (localFiles' = localFiles /\ s3Objects' = s3Objects)]_vars
    /\ [][(localFiles' # localFiles \/ s3Objects' # s3Objects) =>
             (err = "none" /\ pc \in {"applyRetentionToLocal", "applyRetentionToS3"})]_vars

\* the S3 listing fails in a real run whose policy keeps nothing, and the two
\* local snapshots stay
C14_Witness ==
    /\ pc = "returned"
    /\ err = "failed to get S3 snapshots"
    /\ ~dryRun
    /\ AllDisabled(policy)
    /\ Len(localSnapshots) = 2
    /\ DOMAIN localFiles = StoreNames
    /\ DOMAIN s3Objects = StoreNames

\* C18: a dry run deletes nothing, and the would-be-deleted sets it reports
\* are the sets any real run over the same listings at the same instant
\* deletes: every verdict GetUnifiedRetentionStatus can return for the listings
\* selects what the dry run reported.
C18_DryRunReportsRealSelection ==
    (Applied /\ dryRun) =>
        /\ s3SnapshotNames(localSnapshots) \subseteq DOMAIN localFiles
        /\ s3SnapshotNames(s3Snapshots) \subseteq DOMAIN s3Objects
        /\ \A decisions \in GetUnifiedRetentionStatus(localSnapshots, s3Snapshots, policy, now) :
               /\ Range(localDeleted) = s3SnapshotNames(NotKept(localSnapshots, decisions))
               /\ s3Client # "nil" =>
                      Range(keysToDelete) = s3SnapshotNames(NotKept(s3Snapshots, decisions))

---------------------------------------------------------------------------
(* Properties of the name resolution, under SpecResolve *)

KnownCompressedSuffixes == {Zst, Gz, Lz4, Bz2}

\* C9: the candidate list is [name] when name ends with .zst, .gz, .lz4 or
\* .bz2; otherwise, when name ends with .db, it is [name.zst, name.gz, name.lz4,
\* name.bz2, name]; and [name] for any other name.
C9_CandidateList ==
    resPc \in {"loop", "returned"} =>
        candidates =
            IF \E suffix \in KnownCompressedSuffixes : HasSuffix(filename, suffix)
            THEN <<filename>>
            ELSE IF HasSuffix(filename, Db)
            THEN <<filename \o Zst, filename \o Gz, filename \o Lz4, filename \o Bz2,
                   filename>>
            ELSE <<filename>>

C9_Witness ==
    /\ resPc = "loop"
    /\ filename = <<"s", ".", "d", "b">>
    /\ Len(candidates) = 5
    /\ candidates[1] = <<"s", ".", "d", "b", ".", "z", "s", "t">>
    /\ candidates[5] = filename

\* the candidate's existence check succeeds
Present(name) == IF resolver = "s3" THEN stat[name] = "object" ELSE stat[name] = "file"

\* the candidate's existence check says it is not there
Missing(name) ==
    IF resolver = "s3" THEN stat[name] = "not found" ELSE stat[name] # "file"

\* C10: the candidates are probed in list order; a candidate is probed only
\* after every earlier one was found missing; the resolver returns the first
\* candidate whose check succeeds and probes none after it; it returns not found,
\* with the name asked for, only after all candidates were probed and found
\* missing; and an S3 probe failing with another error ends the resolution with
\* the error, no later candidate being probed.
C10_ProbeInOrder ==
    resPc \in {"loop", "returned"} =>
        /\ Len(probed) <= Len(candidates)
        /\ probed = SubSeq(candidates, 1, Len(probed))
        /\ \A i \in 1..(Len(probed) - 1) : Missing(probed[i])
        /\ resPc = "loop" => \A i \in 1..Len(probed) : Missing(probed[i])
        /\ resPc = "returned" =>
              IF resolved.found
              THEN /\ ~resolved.err
                   /\ probed # <<>>
                   /\ resolved.name = probed[Len(probed)]
                   /\ Present(resolved.name)
              ELSE IF resolved.err
              THEN /\ resolver = "s3"
                   /\ probed # <<>>
                   /\ stat[probed[Len(probed)]] = "error"
              ELSE /\ probed = candidates
                   /\ \A i \in 1..Len(candidates) : Missing(candidates[i])
                   /\ resolved.name = filename

\* the third candidate is returned from S3 although the fourth exists too and
\* the fifth would fail
C10_Witness ==
    /\ resolver = "s3"
    /\ resPc = "returned"
    /\ Len(candidates) = 5
    /\ resolved.found
    /\ Len(probed) = 3
    /\ stat[candidates[4]] = "object"
    /\ stat[candidates[5]] = "error"

\* the four compressed variants of the name asked for are all in the store
AllVariantsPresent ==
    /\ HasSuffix(filename, Db)
    /\ \A suffix \in KnownCompressedSuffixes :
          /\ ~HasSuffix(filename, suffix)
          /\ filename \o suffix \in DOMAIN stat
          /\ Present(filename \o suffix)

\* C11: when a raw .db name is asked for and all four compressed variants are
\* in the store, the resolver returns the variant carrying the suffix of the
\* configured compression algorithm (--compression), and no other variant.
C11_ConfiguredAlgorithmFirst ==
    (resPc = "returned" /\ AllVariantsPresent /\ Compression # "none") =>
        /\ resolved.found
        /\ resolved.name = filename \o GetCompressionExt(Compression)

---------------------------------------------------------------------------
(* Properties of the catch-up step, under SpecCatchUp *)

\* the names the bucket holds that the S3 listing did not show
NewInS3 == DOMAIN s3Objects \ s3SnapshotNames(s3Snapshots)

\* C12: the catch-up selection is exactly the local records whose name the
\* verdict keeps and whose name is not in the S3 listing, each once; nothing
\* else is uploaded.
C12_GapDetection ==
    (pc \in {"uploadMissing:Upload", "returned"} /\ err = "none") =>
        /\ s3SnapshotNames(toUpload) =
               (s3SnapshotNames(localSnapshots) \cap retentionDecisions)
                   \ s3SnapshotNames(s3Snapshots)
        /\ \A i \in 1..Len(toUpload) : \E j \in 1..Len(localSnapshots) :
               toUpload[i] = localSnapshots[j]
        /\ \A i, j \in 1..Len(toUpload) : toUpload[i].Name = toUpload[j].Name => i = j
        /\ NewInS3 \subseteq s3SnapshotNames(toUpload)

\* of two local snapshots one is kept and missing from S3, and is uploaded;
\* the other is not kept
C12_Witness ==
    /\ pc = "returned"
    /\ err = "none"
    /\ Len(localSnapshots) = 2
    /\ Len(toUpload) = 1
    /\ Cardinality(retentionDecisions) = 1
    /\ s3Snapshots # <<>>
    /\ NewInS3 = s3SnapshotNames(toUpload)

\* C13: when the S3 client cannot be created or the S3 listing fails, the
\* catch-up step returns an error, selects and uploads nothing, and does not
\* report that all kept snapshots are already present.
C13_SkippedNotZeroGaps ==
    (pc = "returned" /\ (s3Client = "nil" \/ "s3" \in listFails)) =>
        /\ err # "none"
        /\ toUpload = <<>>
        /\ AllPresentMsg \notin log
        /\ UploadedMsg \notin log

\* the S3 listing fails while a kept local snapshot is missing from the bucket
C13_Witness ==
    /\ pc = "returned"
    /\ s3Client = "client"
    /\ listFails = {"s3"}
    /\ err = "failed to get S3 snapshots"
    /\ policy.KeepLast = 1
    /\ Len(localSnapshots) = 2
    /\ s3Objects = <<>>

---------------------------------------------------------------------------
(* Properties of the list command, under SpecList *)

\* the list command takes its unified path
ListsUnified == Unified /\ ~Local /\ ~Remote

\* a listing the list command asked for could not be obtained
ListingFailed ==
    \/ (ListsUnified \/ ~Remote) /\ "local" \in listFails
    \/ (ListsUnified \/ ~Local) /\ s3Client = "client" /\ "s3" \in listFails

\* C15: a failure to obtain a listing is reported to the caller as an error:
\* the list command, on its unified and on its separate path, returns an error
\* when a listing it asked for failed.
C15_ListingFailureReported ==
    (cmdPc = "done" /\ ListingFailed) => cmdErr # "none"

\* the list command evaluated the bucket on its separate path
ListedS3Separately == ~ListsUnified /\ ~Local /\ s3Client = "client" /\ "s3" \notin listFails

\* C22: every remote record the list command evaluates has passed
\* IsSnapshotFile, as the records of cleanup have, and the status it shows for
\* an S3 snapshot is the decision ApplyS3 makes over the same bucket.
C22_ListFiltersLikeCleanup ==
    cmdPc = "done" =>
        /\ \A i \in 1..Len(s3Snapshots) : IsSnapshotFile(s3Snapshots[i].Name)
        /\ ListedS3Separately =>
               \A i \in 1..Len(listed) :
                   (listed[i].Location = "s3" /\ IsSnapshotFile(listed[i].Name)) =>
                       (listed[i].Retention = "keep" <=>
                           listed[i].Name \in
                               determineSnapshotsToKeep(Listing(s3Objects, TRUE), policy, now))

---------------------------------------------------------------------------
(* Properties of the cleanup command, under SpecCleanup *)

\* the cleanup command takes its unified path
CleansUnified == Unified /\ ~Local /\ ~Remote

\* a step takes a file out of the snapshot directory
RemovesLocal == DOMAIN localFiles' # DOMAIN localFiles

\* a step takes an object out of the bucket
RemovesS3 == DOMAIN s3Objects' # DOMAIN s3Objects

\* the statements that delete
DeleteSteps ==
    {"applyRetentionToLocal", "applyRetentionToS3", "ApplyLocal:delete", "ApplyS3:delete"}

\* the listings of the pass have been read and the verdict is the one computed
\* from them
VerdictComplete ==
    CASE pc = "applyRetentionToLocal" ->
            /\ s3SnapshotNames(localSnapshots) = DOMAIN localFiles
            /\ s3Client # "nil" => s3SnapshotNames(s3Snapshots) = DOMAIN s3Objects
            /\ retentionDecisions \in
                   GetUnifiedRetentionStatus(localSnapshots, s3Snapshots, policy, now)
      [] pc = "applyRetentionToS3" ->
            /\ s3Client # "nil" => s3SnapshotNames(s3Snapshots) = DOMAIN s3Objects
            /\ retentionDecisions \in
                   GetUnifiedRetentionStatus(localSnapshots, s3Snapshots, policy, now)
      [] pc = "ApplyLocal:delete" ->
            /\ s3SnapshotNames(localSnapshots) = DOMAIN localFiles
            /\ retentionDecisions = determineSnapshotsToKeep(localSnapshots, policy, now)
      [] pc = "ApplyS3:delete" ->
            /\ s3SnapshotNames(s3Snapshots) = DOMAIN s3Objects
            /\ retentionDecisions = determineSnapshotsToKeep(s3Snapshots, policy, now)
      [] OTHER -> FALSE

\* a step that takes a snapshot out of a store is a deleting statement that
\* starts from the complete verdict and takes out only what it does not keep
DeletesAfterDeciding ==
    (RemovesLocal \/ RemovesS3) =>
        /\ pc \in DeleteSteps
        /\ VerdictComplete
        /\ (DOMAIN localFiles \ DOMAIN localFiles') \cap retentionDecisions = {}
        /\ (DOMAIN s3Objects \ DOMAIN s3Objects') \cap retentionDecisions = {}

\* a deleting statement leaves the verdict and the listings as they are
DeletingKeepsVerdict ==
    pc \in DeleteSteps =>
        /\ retentionDecisions' = retentionDecisions
        /\ localSnapshots' = localSnapshots
        /\ s3Snapshots' = s3Snapshots

\* C16: a snapshot leaves a store only in a deleting statement that starts with
\* every listing of the pass read and the verdict computed from them, only if
\* the verdict does not keep it, and no deleting statement changes the verdict
\* or the listings: the S3 deletions of ApplyUnified use the verdict of its
\* local deletions.
C16_DecideThenAct == [][DeletesAfterDeciding]_vars /\ [][DeletingKeepsVerdict]_vars

\* a unified cleanup has deleted a local file and an S3 object
C16_Witness ==
    /\ cmdPc = "done"
    /\ run = 1
    /\ CleansUnified
    /\ ~dryRun
    /\ cmdErr = "none"
    /\ Len(localDeleted) = 1
    /\ Len(keysToDelete) = 1
    /\ Range(localDeleted) \cap DOMAIN localFiles = {}
    /\ Range(keysToDelete) \cap DOMAIN s3Objects = {}
    /\ Cardinality(retentionDecisions) = 1

\* C17: when a unified cleanup has returned nil with everything it selected
\* deleted, the unified cleanup run again with the same policy at the same
\* instant selects nothing in either store.
C17_CleanupIdempotent ==
    (run > 1 /\ prevRun.clean) => (localDeleted = <<>> /\ keysToDelete = <<>>)

\* the second run has returned after a first run that deleted two snapshots
C17_Witness ==
    /\ run = 2
    /\ prevRun.clean
    /\ prevRun.deleted = 2
    /\ cmdPc = "done"
    /\ cmdErr = "none"
    /\ ~dryRun
    /\ s3Client = "client"
    /\ Len(localSnapshots) = 1
    /\ Len(s3Snapshots) = 1

\* C19: with --local no S3 object is selected or deleted, with --remote no
\* local file; ApplyUnified runs only when --unified is set and neither --local
\* nor --remote is; otherwise each store that is cleaned is evaluated from its
\* own listing.
C19_ScopeFlags ==
    /\ [][Local => (s3Objects' = s3Objects /\ keysToDelete' = <<>>)]_vars
    /\ [][Remote => (localFiles' = localFiles /\ localDeleted' = <<>>)]_vars
    /\ [](cmdPc \in {"runUnifiedCleanup", "ApplyUnified"} <=>
             (CleansUnified /\ cmdPc \notin {"Run", "done"}))
    /\ [](pc \in {"ApplyLocal:delete", "ApplyS3:delete"} => VerdictComplete)
    /\ []((cmdPc = "done" /\ ~CleansUnified) =>
             /\ Range(localDeleted) =
                    s3SnapshotNames(localSnapshots)
                        \ determineSnapshotsToKeep(localSnapshots, policy, now)
             /\ Range(keysToDelete) =
                    s3SnapshotNames(s3Snapshots)
                        \ determineSnapshotsToKeep(s3Snapshots, policy, now))

\* --local: the stale local snapshot is deleted, the stale S3 object stays
C19_Witness ==
    /\ cmdPc = "done"
    /\ Local
    /\ ~Remote
    /\ ~dryRun
    /\ s3Client = "client"
    /\ AllDisabled(policy)
    /\ Len(localDeleted) = 2
    /\ localFiles = <<>>
    /\ DOMAIN s3Objects = StoreNames

---------------------------------------------------------------------------
(* Properties of the snapshot command, under SpecSnapshot *)

\* a step of the remove-local statement takes the new snapshot file away
RemoveLocalRemoves ==
    /\ cmdPc = "removeLocal"
    /\ NewSnapshot \in DOMAIN localFiles
    /\ NewSnapshot \notin DOMAIN localFiles'

\* C20: remove-local removes the new snapshot file only after its upload to S3
\* has succeeded; when the upload fails the command returns an error with the
\* file still in place; and with upload-to-s3 off remove-local removes nothing.
C20_RemoveLocalAfterUpload ==
    /\ [][RemoveLocalRemoves =>
             (UploadToS3 /\ RemoveLocal /\ UploadedToS3Msg \in log
                 /\ NewSnapshot \in DOMAIN s3Objects
                 /\ RemovedLocalMsg \in log')]_vars
    /\ [](cmdPc = "removeLocal" => (UploadToS3 /\ UploadedToS3Msg \in log))
    /\ [](RemovedLocalMsg \in log => (UploadToS3 /\ RemoveLocal /\ UploadedToS3Msg \in log))
    /\ [](cmdErr = "failed to upload snapshot to S3" =>
             /\ cmdPc = "done"
             /\ NewSnapshot \in DOMAIN localFiles
             /\ RemovedLocalMsg \notin log)

\* the new snapshot was uploaded and then removed by remove-local
C20_Witness ==
    /\ cmdPc = "done"
    /\ cmdErr = "none"
    /\ UploadToS3
    /\ RemoveLocal
    /\ ~ApplyRetention
    /\ RemovedLocalMsg \in log
    /\ NewSnapshot \notin DOMAIN localFiles
    /\ NewSnapshot \in DOMAIN s3Objects

\* C27: with unified retention and upload enabled, no snapshot the catch-up
\* step selected for upload is among the keys the unified retention pass of
\* the same run deletes from S3, the instant being the same for both steps.
C27_CatchUpSurvivesRetention ==
    (Unified /\ UploadToS3 /\ cmdPc \in {"snapshot:ApplyUnified", "done"}) =>
        Range(keysToDelete) \cap s3SnapshotNames(toUpload) = {}

---------------------------------------------------------------------------
(* Properties of the restore command, under SpecRestore *)

IsS3URL == HasPrefix(Source, S3Scheme)

\* a request has been sent to the object store
S3Contacted == (resolver = "s3" /\ probed # <<>>) \/ s3Ops # {}

\* a local candidate of the source is a regular file with content
LocalCandidateExists ==
    \E c \in Range(ResolveCompressedFilename(Source)) : localStat[c] = "file"

\* the step sends the first request to the object store
FirstS3Contact == ~S3Contacted /\ S3Contacted'

\* the step changes a local file
WritesLocal == localStat' # localStat

\* C21: an s3:// source is always fetched from S3 and never looked up locally;
\* for any other source S3 is contacted only when no local candidate is a
\* non-empty regular file, and then it is; a local candidate that exists is the
\* snapshot restored, with no request sent to S3.
C21_RestoreSourceSelection ==
    /\ [][FirstS3Contact => (IsS3URL \/ ~LocalCandidateExists)]_vars
    /\ [][WritesLocal => S3Contacted]_vars
    /\ [](IsS3URL => resolver # "local")
    /\ []((IsS3URL /\ restorePc = "restore") => s3Ops # {})
    /\ []((~IsS3URL /\ ~S3Contacted /\ restorePc \in {"restore", "done"}) =>
             \/ /\ LocalCandidateExists
                /\ snapshotPath \in Range(ResolveCompressedFilename(Source))
                /\ localStat[snapshotPath] = "file"
             \/ restoreErr = "failed to create S3 client")
    /\ []((~IsS3URL /\ S3Contacted) => (resolver = "s3" /\ filename = Base(Source)))

\* a local candidate was found and restored without any request to S3
C21_Witness ==
    /\ ~IsS3URL
    /\ restorePc = "done"
    /\ restoreErr = "none"
    /\ LocalCandidateExists
    /\ ~S3Contacted
    /\ snapshotPath # Source
    /\ \E k \in DOMAIN s3Stat : s3Stat[k] = "object"

---------------------------------------------------------------------------
(* Properties of etcd.NewClient, under SpecNewClient *)

\* the TLS setup is over: the configuration is handed to clientv3.New
TLSSetupDone == newClientPc \in {"clientv3.New", "Status"} \/ etcdClient = "client"

CaGiven == cfg.CaFile # ""
PairGiven == cfg.CertFile # "" /\ cfg.KeyFile # ""

\* C23: TLS is configured iff a CA file or both a cert and a key file are given;
\* then verification is skipped iff no CA file is given, a client certificate
\* is presented iff both cert and key are given, and root CAs are set iff a CA
\* file is given; an unreadable or unparsable CA file or an unloadable pair
\* yields an error and no client.
C23_TLSSetup ==
    /\ TLSSetupDone =>
           /\ clientConfig.TLS # NilTLS <=> (CaGiven \/ PairGiven)
           /\ clientConfig.TLS # NilTLS =>
                  /\ clientConfig.TLS.InsecureSkipVerify <=> ~CaGiven
                  /\ clientConfig.TLS.Certificates # <<>> <=> PairGiven
                  /\ clientConfig.TLS.RootCAs # "nil" <=> CaGiven
    /\ (newClientPc = "returned" /\
            \/ PairGiven /\ ~LoadX509KeyPair(cfg.CertFile, cfg.KeyFile)
            \/ cfg.CaFile \in {"unreadable", "malformed"}) =>
           /\ etcdErr \in {"failed to load client certificate",
                           "failed to read CA certificate file",
                           "failed to parse CA certificate"}
           /\ etcdClient = "nil"
    /\ etcdClient = "client" <=> (newClientPc = "returned" /\ etcdErr = "none")

\* a client made with a certificate and no CA file: verification is skipped
C23_Witness ==
    /\ etcdClient = "client"
    /\ ~CaGiven
    /\ PairGiven
    /\ clientConfig.TLS.InsecureSkipVerify
    /\ clientConfig.TLS.Certificates # <<>>

---------------------------------------------------------------------------
(* Properties of the S3 client's keys, under SpecS3Keys *)

\* C26: buildKey(k) is k for the empty prefix and prefix/k otherwise; List
\* returns the key k of every object stored under buildKey(k), so that
\* buildKey of a listed key is the full key of the object that was listed,
\* and Delete of a listed key addresses that object.
C26_PrefixRoundTrip ==
    /\ \A k \in Keys :
           buildKey(k) = IF s3Prefix = <<>> THEN k ELSE Clean(s3Prefix \o <<"/">> \o k)
    /\ \A i \in 1..Len(s3Listed) :
           /\ s3Listed[i].Key \in uploaded
           /\ buildKey(s3Listed[i].Key) = s3Listed[i].Full
    /\ \A d \in deleted : d.Target = d.Listed

---------------------------------------------------------------------------
(* CLIContext.GetS3Client called from several goroutines *)

\* how many calls each goroutine makes
MaxCalls == 2

Goroutines == {"g1", "g2"}

\* the bucket names configured
BucketNames == {"", "b"}

\* sync.Mutex.Lock returns only while no goroutine holds the mutex
MutexIgnored == TRUE

MutexFree == s3Mutex = "free"

\* what GetS3Client itself neither reads nor writes
getFrame ==
    <<policy, now, exceptGet, evalVars, unifiedVars, resolveVars, cmdVars, Bucket>>

\* a goroutine calls GetS3Client
GetS3ClientCall(g) ==
    /\ getPc[g] = "idle"
    /\ calls[g] < MaxCalls
    /\ calls' = Put(calls, g, calls[g] + 1)
    /\ getPc' = Put(getPc, g, "Bucket")
    /\ UNCHANGED <<getFrame, s3Mutex, ctxClient, created, attempts, returned>>

\* the check of the bucket name, before the mutex is taken
GetS3ClientBucket(g) ==
    /\ getPc[g] = "Bucket"
    /\ IF Bucket = ""
       THEN /\ returned' = returned \cup
                   {[By |-> g, Call |-> calls[g], Client |-> 0, Err |-> "bucket"]}
            /\ getPc' = Put(getPc, g, "idle")
       ELSE /\ getPc' = Put(getPc, g, "Lock")
            /\ UNCHANGED returned
    /\ UNCHANGED <<getFrame, s3Mutex, ctxClient, created, attempts, calls>>

\* ctx.s3Mutex.Lock()
GetS3ClientLock(g) ==
    /\ getPc[g] = "Lock"
    /\ MutexFree
    /\ s3Mutex' = g
    /\ getPc' = Put(getPc, g, "check")
    /\ UNCHANGED <<getFrame, ctxClient, created, attempts, calls, returned>>

\* if ctx.s3Client == nil
GetS3ClientCheck(g) ==
    /\ getPc[g] = "check"
    /\ getPc' = Put(getPc, g, IF ctxClient = 0 THEN "CreateClient" ELSE "return")
    /\ UNCHANGED <<getFrame, s3Mutex, ctxClient, created, attempts, calls, returned>>

\* ctx.s3Client, err = ctx.s3Factory.CreateClient(...): a new client and nil,
\* or nil and an error, with which the call returns and the mutex is released
GetS3ClientCreate(g) ==
    /\ getPc[g] = "CreateClient"
    /\ attempts' = attempts + 1
    /\ \E ok \in BOOLEAN :
          IF ok
          THEN /\ created' = created + 1
               /\ ctxClient' = created + 1
               /\ getPc' = Put(getPc, g, "return")
               /\ UNCHANGED <<s3Mutex, returned>>
          ELSE /\ ctxClient' = 0
               /\ returned' = returned \cup
                      {[By |-> g, Call |-> calls[g], Client |-> 0, Err |-> "create"]}
               /\ s3Mutex' = "free"
               /\ getPc' = Put(getPc, g, "idle")
               /\ UNCHANGED created
    /\ UNCHANGED <<getFrame, calls>>

\* return ctx.s3Client, nil, and the deferred Unlock
GetS3ClientReturn(g) ==
    /\ getPc[g] = "return"
    /\ returned' = returned \cup
           {[By |-> g, Call |-> calls[g], Client |-> ctxClient, Err |-> "none"]}
    /\ s3Mutex' = "free"
    /\ getPc' = Put(getPc, g, "idle")
    /\ UNCHANGED <<getFrame, ctxClient, created, attempts, calls>>

GetS3ClientInit ==
    /\ RestoreIdle
    /\ EtcdIdle
    /\ S3KeysIdle
    /\ CompressIdle
    /\ policy = NoPolicy
    /\ now = Now0
    /\ EvalIdle
    /\ UnifiedIdle
    /\ ResolveIdle
    /\ CmdIdle
    /\ Bucket \in BucketNames
    /\ s3Mutex = "free"
    /\ ctxClient = 0
    /\ created = 0
    /\ attempts = 0
    /\ getPc = [g \in Goroutines |-> "idle"]
    /\ calls = [g \in Goroutines |-> 0]
    /\ returned = {}

GetS3Client ==
    \E g \in Goroutines :
        \/ GetS3ClientCall(g)
        \/ GetS3ClientBucket(g)
        \/ GetS3ClientLock(g)
        \/ GetS3ClientCheck(g)
        \/ GetS3ClientCreate(g)
        \/ GetS3ClientReturn(g)

SpecGetS3Client == GetS3ClientInit /\ [][GetS3Client]_vars

---------------------------------------------------------------------------
(* SnapshotCmd.Run from the etcd snapshot to the upload: the compression *)

\* snapshotPath
SnapshotFilePath == <<"s">> \o Db

\* the paths of the snapshot directory the command may write
DirPaths == {SnapshotFilePath \o e : e \in {<<>>, Gz, Bz2, Lz4, Zst}}

\* what is at a path: nothing, a file from an earlier run, the whole of the new
\* snapshot (raw or compressed), or a part of it only
Contents == {"absent", "old", "new", "partial"}

\* the values SnapshotCmd.Compression is given
Compressions == {"none", "gzip", "bzip2", "lz4", "zstd", "", "NONE", "xz"}

\* strings.ToLower on these values
ToLower(str) == IF str = "NONE" THEN "none" ELSE str

\* compressGzip, compressBzip2, compressLz4, compressZstd: the source cannot be
\* opened or the destination not created; or the destination is created and
\* the copy fails; or the copy succeeds and nil is returned, the deferred Close
\* of the writer and of the file, which write out what the compressor still
\* holds, having failed or not
compress(files, src, dst) ==
    IF files[src] = "absent"
    THEN {[Files |-> files, Err |-> TRUE]}
    ELSE {[Files |-> files, Err |-> TRUE],
          [Files |-> Put(files, dst, "partial"), Err |-> TRUE],
          [Files |-> Put(files, dst, files[src]), Err |-> FALSE],
          [Files |-> Put(files, dst, "partial"), Err |-> FALSE]}

\* compression.CompressFile: the directory after it and whether it returned an error
CompressFile(files, inputPath, outputPath, algorithm) ==
    IF algorithm = "none"
    THEN {[Files |-> files, Err |-> FALSE]}
    ELSE IF algorithm \in {"gzip", "bzip2", "lz4", "zstd"}
    THEN compress(files, inputPath, outputPath)
    ELSE {[Files |-> files, Err |-> TRUE]}

\* compressedPath
CompressedPath == SnapshotFilePath \o GetCompressionExt(sCompression)

\* what this part of Run neither reads nor writes
compressFrame ==
    <<policy, now, exceptCompress, evalVars, unifiedVars, resolveVars, cmdVars, sCompression>>

\* etcdClient.Snapshot(snapshotCtx, snapshotPath)
RunSnapshot ==
    /\ runPc = "Snapshot"
    /\ \E ok \in BOOLEAN :
          IF ok
          THEN /\ dirFiles' = Put(dirFiles, SnapshotFilePath, "new")
               /\ runPc' = "CompressFile"
               /\ UNCHANGED runErr
          ELSE /\ runErr' = "failed to take etcd snapshot"
               /\ runPc' = "returned"
               /\ UNCHANGED dirFiles
    /\ UNCHANGED <<compressFrame, finalSnapshotPath>>

\* finalSnapshotPath := snapshotPath, and CompressFile when an algorithm is named
RunCompressFile ==
    /\ runPc = "CompressFile"
    /\ finalSnapshotPath' = SnapshotFilePath
    /\ IF ToLower(sCompression) # "none" /\ sCompression # ""
       THEN \E r \in CompressFile(dirFiles, SnapshotFilePath, CompressedPath, sCompression) :
               /\ dirFiles' = r.Files
               /\ IF r.Err
                  THEN /\ runErr' = "failed to compress snapshot"
                       /\ runPc' = "returned"
                  ELSE /\ runPc' = "RemoveSnapshot"
                       /\ UNCHANGED runErr
       ELSE /\ runPc' = "upload"
            /\ UNCHANGED <<dirFiles, runErr>>
    /\ UNCHANGED compressFrame

\* etcdClient.RemoveSnapshot(snapshotPath), whose error is logged only, and
\* finalSnapshotPath = compressedPath
RunRemoveSnapshot ==
    /\ runPc = "RemoveSnapshot"
    /\ \E ok \in BOOLEAN :
          dirFiles' = IF ok THEN Put(dirFiles, SnapshotFilePath, "absent") ELSE dirFiles
    /\ finalSnapshotPath' = CompressedPath
    /\ runPc' = "upload"
    /\ UNCHANGED <<compressFrame, runErr>>

CompressInit ==
    /\ RestoreIdle
    /\ EtcdIdle
    /\ S3KeysIdle
    /\ GetIdle
    /\ policy = NoPolicy
    /\ now = Now0
    /\ EvalIdle
    /\ UnifiedIdle
    /\ ResolveIdle
    /\ CmdIdle
    /\ sCompression \in Compressions
    /\ dirFiles \in [DirPaths -> {"absent", "old"}]
    /\ runPc = "Snapshot"
    /\ finalSnapshotPath = <<>>
    /\ runErr = "none"

CompressNext ==
    \/ RunSnapshot
    \/ RunCompressFile
    \/ RunRemoveSnapshot

SpecCompress == CompressInit /\ [][CompressNext]_vars

---------------------------------------------------------------------------
(* Properties of GetS3Client, under SpecGetS3Client *)

\* what holds of the calls made so far
OneClient ==
    /\ created <= 1
    /\ ctxClient = created
    /\ \A r \in returned :
           /\ r.Err = "none" => r.Client = 1
           /\ r.Err # "none" => r.Client = 0
    /\ Bucket = "" =>
           /\ attempts = 0
           /\ \A r \in returned : r.Err = "bucket"
           /\ \A g \in Goroutines : getPc[g] \in {"idle", "Bucket"}

\* what holds of every step
CachedOnce ==
    /\ ctxClient # 0 => /\ ctxClient' = ctxClient
                        /\ attempts' = attempts
    /\ \A g \in Goroutines :
           (getPc[g] = "check" /\ getPc'[g] # "check") =>
               getPc'[g] = IF ctxClient = 0 THEN "CreateClient" ELSE "return"
    /\ (attempts' # attempts /\ created' = created) => ctxClient' = 0

\* C28: under any interleaving of GetS3Client calls on one CLIContext at most
\* one client is created and every call that succeeds returns it; once it is
\* cached no call creates another; a failed creation leaves nothing cached and
\* the next call that finds nothing cached creates again; with an empty bucket
\* name every call returns an error and nothing is created or cached.
C28_OneClientUnderConcurrency == []OneClient /\ [][CachedOnce]_vars

\* a creation failed, a later one succeeded, and both goroutines were handed
\* the client it made
C28_Witness ==
    /\ attempts >= 2
    /\ created = 1
    /\ \A g \in Goroutines :
           \E r \in returned : r.By = g /\ r.Err = "none" /\ r.Client = 1

---------------------------------------------------------------------------
(* Properties of the snapshot command's compression, under SpecCompress *)

\* the etcd snapshot has been saved and Run has not failed
SnapshotSaved == runPc \in {"CompressFile", "RemoveSnapshot", "upload"}

\* C29: from the moment the etcd snapshot is saved until the upload, the whole
\* of the new snapshot is at the raw path or at the compressed path; and when
\* compression fails Run returns with it still at the raw path.
C29_LocalCopyKept ==
    /\ SnapshotSaved =>
           \E p \in {SnapshotFilePath, CompressedPath} : dirFiles[p] = "new"
    /\ (runPc = "returned" /\ runErr = "failed to compress snapshot") =>
           dirFiles[SnapshotFilePath] = "new"

=============================================================================
